---- MODULE Spec2Model ----
(***************************************************************************)
(* Verification model of the EcoTaxa back-end (moi90/ecotaxa_back).        *)
(*                                                                         *)
(* The module holds several state machines, one per area of the program,   *)
(* over one set of variables.  Each specification starts the variables of  *)
(* the other areas in their idle value and never changes them.             *)
(*                                                                         *)
(*   SpecStats      classification changes and projects_taxo_stat          *)
(*   SpecConc       two concurrent incremental statistics updates          *)
(*   SpecDelete     ObjectManager.delete and the file remover              *)
(*   SpecQuery      ObjectManager.query / summary, ordering and windows    *)
(*   SpecJobs       jobs, their scheduler, question and reply              *)
(*   SpecNightly    one run of the nightly maintenance job                 *)
(*   SpecProject    ProjectBO.update and its session                       *)
(*   SpecUsers      user status, session token, update of the own profile  *)
(*   SpecPassword   UserBO.is_strong_password on one password              *)
(*   SpecMru        UserBO.merge_mru on two lists of classification ids    *)
(*   SpecPurge      ProjectsService.delete of a project, then again        *)
(*   SpecCollection the collection endpoints: create, read, update, delete *)
(*   SpecPrefs      UserBO.set_ and get_preferences_per_project            *)
(*   SpecTaxoQuery  TaxonomyBO.query: priority, order and limit            *)
(*   SpecLineage    TaxonBOSet: lineages from the chain of self-joins      *)
(*   SpecFields     ObjectBO.resolve_fields on a list of references        *)
(*   SpecMail       MailProvider built from a sender account, send_mail    *)
(*   SpecService    Service instances of threads, connections and sessions *)
(*   SpecMigration  upgrade() of revision 4bb7276e86de, step by step       *)
(***************************************************************************)
EXTENDS Integers, Sequences, FiniteSets, TLC

VARIABLES
    \* ---- obj_head and projects_taxo_stat of one project (committed rows)
    objs,        \* objid -> [classif_id, classif_qual]
    pts,         \* set of projects_taxo_stat rows [id, nbr, nbr_v, nbr_d, nbr_p]
    lastCall,    \* what the last ObjectManager call did (observation only)
    \* ---- two concurrent database transactions on that project
    tx,          \* transaction -> its position, locks and uncommitted writes
    pk,          \* whether projects_taxo_stat has a unique key on (projid, id)
    \* ---- objects, images and statistics of several projects; ObjectManager.delete
    objProj,     \* objid -> the project that owns the object (through its acquisition and sample)
    dObjects,    \* the objids having an obj_head row
    dImages,     \* the objids having an images row
    dFiles,      \* the objids whose image file is in the vault
    dStats,      \* project -> the object count its statistics record
    manages,     \* user -> the projects on which the user has the Manage privilege
    dParents,    \* the rows of samples, acquisitions and process, of all projects
    remover,     \* VaultRemover: [started, queue of files to remove]
    del,         \* the running ObjectManager.delete call
    \* ---- one project read by ObjectManager.query / summary
    qdb,         \* objid -> [classif_qual, val]: the row of the object
    prjVisible,  \* whether the project may be read without login
    lastQuery,   \* the last query / summary call and its answer
    scan,        \* a client reading one query window after window
    \* ---- jobs and their scheduler
    jobs,        \* job id -> the Job row
    runner,      \* the job the scheduler's runner thread executes, or 0
    \* ---- the nightly maintenance job
    night,       \* the run of NightlyJobService
    jobTable,    \* job id -> [creation_date, state]: the rows of past jobs
    nlog,        \* what the run has done so far, in order
    \* ---- one project under ProjectBO.update
    project,     \* the committed project: fields, privilege rows, variables, features
    privKey,     \* the unique key of the privilege table
    updCall,     \* the ProjectBO.update call and its session
    \* ---- users, their status and session
    users,       \* user id -> [status, email]: the rows of table users
    verification,\* whether a changed email must be verified again
    token,       \* the bearer token of the ordinary user
    updUser,     \* the last PUT /users/{user_id} call and its answer
    \* ---- one password under UserBO.is_strong_password
    pwd,         \* [password, checked, strong]
    \* ---- one call of UserBO.merge_mru
    mru,         \* [before, incoming, done, ret]
    \* ---- whole projects under ProjectsService.delete
    prjTable,    \* the projids having a row in table projects
    prjContent,  \* projid -> [objects, parents, privs, nbr]: what belongs to the project
    purge,       \* the running ProjectsService.delete call
    \* ---- collections of projects
    colls,       \* collection id -> [project_ids, abstract]: the rows of table collection
    collProjects,\* projid -> the content of the project
    nextColl,    \* the next value of the sequence of collection ids
    erased,      \* the collections deleted so far, with what their projects were
    collCall,    \* the last call of a collection endpoint and its answer
    \* ---- the preferences of one user, per project
    prefRows,    \* project_id -> json_prefs: the rows of the user's preferences
    lastSet,     \* <<project_id, key>> -> the value last set, "" when never set
    prefCall,    \* the get_preferences_per_project call made since the last set, and its answer
    \* ---- the taxonomy table under TaxonomyBO.query
    taxoNames,   \* taxon id -> display_name
    taxoQ,       \* the TaxonomyBO.query call: its parameters and its result
    \* ---- the taxonomy tree under TaxonBOSet
    taxoTree,    \* taxon id -> [name, parent_id]: the rows of table taxonomy
    taxonSet,    \* the TaxonBOSet call: [taxon_ids, done, taxa]
    \* ---- one call of ObjectBO.resolve_fields
    fieldsCall,  \* [fields_list, is_none, done, raised, ret]
    \* ---- a MailProvider, its calls of send_mail and the SMTP server
    mailer,      \* [senderaccount, account_set, built, calls]
    mailCall,    \* [email, pc, outcome]
    smtp,        \* the connections made to the SMTP server, in order
    \* ---- the Service class and the Service instances of the request threads
    svcClass,    \* [the_connection, the_readonly_connection, ro_configured, ...]
    svc,         \* thread -> the Service it constructs and uses
    svcDb,       \* the number of changes committed through read-write sessions
    \* ---- the database under migration 4bb7276e86de
    mdb,         \* [objs, samples, acquisitions, process, nextval]
    mig          \* the upgrade: [pc, before]

statsVars == <<objs, pts, lastCall>>
concVars == <<tx, pk>>
delVars == <<objProj, dObjects, dImages, dFiles, dStats, manages, dParents, remover, del>>

queryVars == <<qdb, prjVisible, lastQuery, scan>>
jobVars == <<jobs, runner>>
nightVars == <<night, jobTable, nlog>>
projectVars == <<project, privKey, updCall>>
usersVars == <<users, verification, token, updUser>>
passwordVars == <<pwd>>
mruVars == <<mru>>
purgeVars == <<prjTable, prjContent, purge>>
collectionVars == <<colls, collProjects, nextColl, erased, collCall>>
prefsVars == <<prefRows, lastSet, prefCall>>
taxoQueryVars == <<taxoNames, taxoQ>>
lineageVars == <<taxoTree, taxonSet>>
fieldsVars == <<fieldsCall>>
mailVars == <<mailer, mailCall, smtp>>
serviceVars == <<svcClass, svc, svcDb>>
migrationVars == <<mdb, mig>>

\* The areas of the first seven specifications, and the later ones.
firstVars == <<statsVars, concVars, delVars, queryVars, jobVars, nightVars, projectVars>>
laterVars == <<usersVars, passwordVars, mruVars, purgeVars, collectionVars, prefsVars, taxoQueryVars, lineageVars, fieldsVars, mailVars, serviceVars, migrationVars>>

\* The variables outside the area of each specification.
outStats == <<concVars, delVars, queryVars, jobVars, nightVars, projectVars, laterVars>>
outConc == <<delVars, queryVars, jobVars, nightVars, projectVars, laterVars>>
outDelete == <<statsVars, concVars, queryVars, jobVars, nightVars, projectVars, laterVars>>
outQuery == <<statsVars, concVars, delVars, jobVars, nightVars, projectVars, laterVars>>
outJobs == <<statsVars, concVars, delVars, queryVars, nightVars, projectVars, laterVars>>
outNightly == <<statsVars, concVars, delVars, queryVars, jobVars, projectVars, laterVars>>
outProject == <<statsVars, concVars, delVars, queryVars, jobVars, nightVars, laterVars>>
outUsers == <<firstVars, passwordVars, mruVars, purgeVars, collectionVars, prefsVars, taxoQueryVars, lineageVars, fieldsVars, mailVars, serviceVars, migrationVars>>
outPassword == <<firstVars, usersVars, mruVars, purgeVars, collectionVars, prefsVars, taxoQueryVars, lineageVars, fieldsVars, mailVars, serviceVars, migrationVars>>
outMru == <<firstVars, usersVars, passwordVars, purgeVars, collectionVars, prefsVars, taxoQueryVars, lineageVars, fieldsVars, mailVars, serviceVars, migrationVars>>
outPurge == <<firstVars, usersVars, passwordVars, mruVars, collectionVars, prefsVars, taxoQueryVars, lineageVars, fieldsVars, mailVars, serviceVars, migrationVars>>
outCollection == <<firstVars, usersVars, passwordVars, mruVars, purgeVars, prefsVars, taxoQueryVars, lineageVars, fieldsVars, mailVars, serviceVars, migrationVars>>
outPrefs == <<firstVars, usersVars, passwordVars, mruVars, purgeVars, collectionVars, taxoQueryVars, lineageVars, fieldsVars, mailVars, serviceVars, migrationVars>>
outTaxoQuery == <<firstVars, usersVars, passwordVars, mruVars, purgeVars, collectionVars, prefsVars, lineageVars, fieldsVars, mailVars, serviceVars, migrationVars>>
outLineage == <<firstVars, usersVars, passwordVars, mruVars, purgeVars, collectionVars, prefsVars, taxoQueryVars, fieldsVars, mailVars, serviceVars, migrationVars>>
outFields == <<firstVars, usersVars, passwordVars, mruVars, purgeVars, collectionVars, prefsVars, taxoQueryVars, lineageVars, mailVars, serviceVars, migrationVars>>
outMail == <<firstVars, usersVars, passwordVars, mruVars, purgeVars, collectionVars, prefsVars, taxoQueryVars, lineageVars, fieldsVars, serviceVars, migrationVars>>
outService == <<firstVars, usersVars, passwordVars, mruVars, purgeVars, collectionVars, prefsVars, taxoQueryVars, lineageVars, fieldsVars, mailVars, migrationVars>>
outMigration == <<firstVars, usersVars, passwordVars, mruVars, purgeVars, collectionVars, prefsVars, taxoQueryVars, lineageVars, fieldsVars, mailVars, serviceVars>>

vars == <<objs, pts, lastCall, tx, pk,
          objProj, dObjects, dImages, dFiles, dStats, manages, dParents, remover, del,
          qdb, prjVisible, lastQuery, scan, jobs, runner,
          night, jobTable, nlog, project, privKey, updCall,
          users, verification, token, updUser,
          pwd,
          mru,
          prjTable, prjContent, purge,
          colls, collProjects, nextColl, erased, collCall,
          prefRows, lastSet, prefCall,
          taxoNames, taxoQ,
          taxoTree, taxonSet,
          fieldsCall,
          mailer, mailCall, smtp,
          svcClass, svc, svcDb,
          mdb, mig>>

(***************************************************************************)
(* Bounds                                                                  *)
(***************************************************************************)
MaxObj == 2

Objs == 1..MaxObj
\* The taxa the project's objects may be classified in (rows of taxonomy).
Taxa == {1, 2}

(***************************************************************************)
(* Classification values                                                   *)
(***************************************************************************)
\* SQL NULL / Python None in obj_head.classif_id.
NULL == 0
\* The id standing for "unclassified" in projects_taxo_stat.
UNCLASSIFIED == -1
\* "-1 means keep current" in the classif_ids of a classify call.
KEEP_CLASSIF == -1
VALIDATED_CLASSIF_QUAL == "V"
DUBIOUS_CLASSIF_QUAL == "D"
PREDICTED_CLASSIF_QUAL == "P"
CLASSIF_QUALS == {VALIDATED_CLASSIF_QUAL, DUBIOUS_CLASSIF_QUAL, PREDICTED_CLASSIF_QUAL}
\* SQL NULL in obj_head.classif_qual.
NO_QUAL == "-"
\* The wanted_qualif of reclassify: keep the present qualification.
KEEP_QUAL == "="

ObjState == [classif_id : Taxa \cup {NULL}, classif_qual : CLASSIF_QUALS \cup {NO_QUAL}]

\* COALESCE(obh.classif_id, -1)
Coalesce(classif_id) == IF classif_id = NULL THEN UNCLASSIFIED ELSE classif_id

StatIds == Taxa \cup {UNCLASSIFIED}

(***************************************************************************)
(* ProjectBO.update_taxo_stats: the full recompute.                        *)
(***************************************************************************)
ObjsOf(o, id) == {x \in DOMAIN o : Coalesce(o[x].classif_id) = id}

CountQual(o, id, q) == Cardinality({x \in ObjsOf(o, id) : o[x].classif_qual = q})

\* One row of the SELECT ... GROUP BY obh.classif_id.
StatRow(o, id) ==
    [id |-> id,
     nbr |-> Cardinality(ObjsOf(o, id)),
     nbr_v |-> CountQual(o, id, VALIDATED_CLASSIF_QUAL),
     nbr_d |-> CountQual(o, id, DUBIOUS_CLASSIF_QUAL),
     nbr_p |-> CountQual(o, id, PREDICTED_CLASSIF_QUAL)]

\* DELETE the project's rows, then INSERT one row per classif_id in use.
update_taxo_stats(o) == {StatRow(o, id) : id \in {i \in StatIds : ObjsOf(o, i) # {}}}

(***************************************************************************)
(* EnumeratedObjectSet.classify_validate / classify_auto: the change       *)
(* buckets (prev_classif_id, prev_classif_qual, new_classif_id, new        *)
(* qualification) -> objects, and the new object rows.                     *)
(***************************************************************************)
NewClassifId(prev, v) == IF v = KEEP_CLASSIF THEN prev.classif_id ELSE v

NewClassifQual(prev, wanted_qualif) ==
    IF wanted_qualif = KEEP_QUAL THEN prev.classif_qual ELSE wanted_qualif

\* The objects of the call that get an update: every object with a changed
\* classification or qualification and, when the caller is not the present
\* classif_who, the unchanged ones too.
UpdatedObjs(o, ids, v, wanted_qualif, same_who) ==
    {x \in ids : \/ ~same_who
                 \/ NewClassifId(o[x], v) # o[x].classif_id
                 \/ NewClassifQual(o[x], wanted_qualif) # o[x].classif_qual}

ChangeKey(prev, v, wanted_qualif) ==
    [prev_classif_id |-> prev.classif_id,
     prev_classif_qual |-> prev.classif_qual,
     new_classif_id |-> NewClassifId(prev, v),
     wanted_qualif |-> NewClassifQual(prev, wanted_qualif)]

\* all_changes, as the set of <<key, objects>> buckets.
AllChanges(o, upd, v, wanted_qualif) ==
    LET keys == {ChangeKey(o[x], v, wanted_qualif) : x \in upd}
    IN {[key |-> k, objects |-> {x \in upd : ChangeKey(o[x], v, wanted_qualif) = k}] : k \in keys}

\* obj_head after the UPDATE of the call.
ClassifiedObjs(o, upd, v, wanted_qualif) ==
    [x \in DOMAIN o |->
        IF x \in upd
        THEN [classif_id |-> NewClassifId(o[x], v),
              classif_qual |-> NewClassifQual(o[x], wanted_qualif)]
        ELSE o[x]]

(***************************************************************************)
(* ObjectManager.count_in_and_out and the collation loop of                *)
(* ObjectManager.propagate_classif_changes.                                *)
(***************************************************************************)
ZeroChange == [n |-> 0, V |-> 0, P |-> 0, D |-> 0]

\* A plausible slip: None is not mapped to the unclassified id.
count_in_and_out_NoUnclassified(cumulated_changes, classif_id, qualif, inc_or_dec) ==
    LET cur == IF classif_id \in DOMAIN cumulated_changes
               THEN cumulated_changes[classif_id] ELSE ZeroChange
        c1 == [cur EXCEPT !.n = @ + inc_or_dec]
        c2 == IF qualif \in CLASSIF_QUALS THEN [c1 EXCEPT ![qualif] = @ + inc_or_dec] ELSE c1
    IN [i \in DOMAIN cumulated_changes \cup {classif_id} |->
            IF i = classif_id THEN c2 ELSE cumulated_changes[i]]

count_in_and_out(cumulated_changes, classif_id, qualif, inc_or_dec) ==
    LET cid == IF classif_id = NULL THEN UNCLASSIFIED ELSE classif_id
        cur == IF cid \in DOMAIN cumulated_changes THEN cumulated_changes[cid] ELSE ZeroChange
        c1 == [cur EXCEPT !.n = @ + inc_or_dec]
        c2 == IF qualif \in CLASSIF_QUALS THEN [c1 EXCEPT ![qualif] = @ + inc_or_dec] ELSE c1
    IN [i \in DOMAIN cumulated_changes \cup {cid} |-> IF i = cid THEN c2 ELSE cumulated_changes[i]]

EmptyChanges == [i \in {} |-> ZeroChange]

RECURSIVE Collate(_, _)
Collate(all_changes, cumulated) ==
    IF all_changes = {} THEN cumulated
    ELSE LET b == CHOOSE c \in all_changes : TRUE
             nb == Cardinality(b.objects)
             \* Decrement for what was before
             out == count_in_and_out(cumulated, b.key.prev_classif_id,
                                     b.key.prev_classif_qual, 0 - nb)
             \* Increment for what arrives
             in == count_in_and_out(out, b.key.new_classif_id, b.key.wanted_qualif, nb)
         IN Collate(all_changes \ {b}, in)

(***************************************************************************)
(* ProjectBO.incremental_update_taxo_stats, run alone in its transaction.  *)
(***************************************************************************)
\* The rows the locking SELECT returns: {classif_id: nbr}.
IdsInDb(rows, needed_ids) == {r.id : r \in {x \in rows : x.id \in needed_ids}}

NbrInDb(rows, id) == (CHOOSE r \in rows : r.id = id).nbr

\* INSERT ... SELECT ... WHERE COALESCE(obh.classif_id, -1) = ANY(:ids) GROUP BY obh.classif_id
InsertedRows(o, ids_not_in_db) ==
    {StatRow(o, id) : id \in {i \in ids_not_in_db : ObjsOf(o, i) # {}}}

\* The DELETE or UPDATE of one taxon's row.
ApplyDelta(rows, id, nbr_read, chg) ==
    IF nbr_read + chg.n = 0
    THEN {r \in rows : r.id # id}
    ELSE {IF r.id = id
          THEN [r EXCEPT !.nbr = @ + chg.n, !.nbr_v = @ + chg.V,
                         !.nbr_d = @ + chg.D, !.nbr_p = @ + chg.P]
          ELSE r : r \in rows}

RECURSIVE ApplyDeltas(_, _, _, _)
ApplyDeltas(rows, ids, read, collated_changes) ==
    IF ids = {} THEN rows
    ELSE LET id == CHOOSE i \in ids : TRUE
         IN ApplyDeltas(ApplyDelta(rows, id, read[id], collated_changes[id]),
                        ids \ {id}, read, collated_changes)

incremental_update_taxo_stats(rows, o, collated_changes) ==
    LET needed_ids == DOMAIN collated_changes
        in_db == IdsInDb(rows, needed_ids)
        ids_in_db == [i \in in_db |-> NbrInDb(rows, i)]
        ids_not_in_db == needed_ids \ in_db
        with_ins == rows \cup InsertedRows(o, ids_not_in_db)
    IN ApplyDeltas(with_ins, in_db, ids_in_db, collated_changes)

\* ObjectManager.propagate_classif_changes: the committed <<obj_head, stats>>.
propagate_classif_changes(nb_upd, all_changes, o_before, o_after, rows) ==
    IF nb_upd > 0
    THEN <<o_after, incremental_update_taxo_stats(rows, o_after, Collate(all_changes, EmptyChanges))>>
    ELSE <<o_before, rows>>      \* session.rollback()

(***************************************************************************)
(* Idle values of the areas a specification does not run.                  *)
(***************************************************************************)
\* The least element of a set of integers.
Min(S) == CHOOSE m \in S : \A n \in S : m <= n

Txs == {1, 2}

IdleTx == [pc |-> "idle", mine |-> <<>>, collated |-> <<>>, taxo_locks |-> {},
           pts_locks |-> {}, to_lock |-> {}, ids_in_db |-> <<>>, ins |-> {}, ops |-> <<>>]

ConcIdle == tx = [t \in Txs |-> IdleTx] /\ pk = TRUE

NoCall == [op |-> "none", hit |-> "none", only_taxon |-> 0, forced_id |-> 0,
           nb_upd |-> 0, log |-> <<>>]

StatsIdle == objs = [x \in Objs |-> [classif_id |-> NULL, classif_qual |-> NO_QUAL]]
             /\ pts = {} /\ lastCall = NoCall

NoDelete == [pc |-> "idle", user |-> 0, ids |-> {}, prj_ids |-> <<>>, to_check |-> <<>>,
             todo |-> {}, stats_todo |-> <<>>, before |-> <<>>,
             nb_objs |-> 0, nb_img_rows |-> 0, img_files |-> {}, trace |-> <<>>]

DelIdle == /\ objProj = <<>> /\ dObjects = {} /\ dImages = {} /\ dFiles = {}
           /\ dStats = <<>> /\ manages = <<>> /\ dParents = {}
           /\ remover = [started |-> FALSE, queue |-> {}]
           /\ del = NoDelete

\* current_user_id is None
ANONYMOUS == 0
\* order_field is None
NoOrderField == [given |-> FALSE, minus |-> FALSE, prfx |-> "", name |-> ""]

\* window_start / window_size is None
NoWindow == -1

NoAnswer == [outcome |-> "none", ids |-> <<>>, total |-> 0, nbr_v |-> 0, nbr_d |-> 0, nbr_p |-> 0]

NoQuery == [op |-> "none", user |-> ANONYMOUS, statusfilter |-> "", order_field |-> NoOrderField,
            window_start |-> NoWindow, window_size |-> NoWindow, answer |-> NoAnswer]

NoScan == [on |-> FALSE, statusfilter |-> "", order_field |-> NoOrderField, size |-> 0,
           full |-> <<>>, got |-> <<>>, done |-> FALSE]

QueryIdle == qdb = <<>> /\ prjVisible = FALSE /\ lastQuery = NoQuery /\ scan = NoScan

JobsIdle == jobs = <<>> /\ runner = 0

\* job.progress_msg is None
NoMessage == "None"

NoNight == [pc |-> "idle", msg0 |-> NoMessage, progress_msg |-> NoMessage, progress_pct |-> 0,
            all_prj_ids |-> {}, todo |-> <<>>, chunk |-> <<>>, curr |-> 0,
            to_clean |-> {}, jobs0 |-> <<>>, result |-> "none"]

NightIdle == night = NoNight /\ jobTable = <<>> /\ nlog = <<>>

NoUpdate == [pc |-> "idle", outcome |-> "none", why |-> "", contact |-> 0,
             cnn_network_id |-> "", its_def |-> "", rows |-> <<>>,
             before |-> <<>>, session |-> <<>>]

ProjectIdle == project = <<>> /\ privKey = "member" /\ updCall = NoUpdate

FirstIdle == /\ StatsIdle /\ ConcIdle /\ DelIdle /\ QueryIdle
             /\ JobsIdle /\ NightIdle /\ ProjectIdle

NoSession == [issued |-> FALSE, refused |-> FALSE]

NoUserUpdate == [code |-> 0, status |-> 0, email |-> "", free |-> FALSE,
                 refused_before |-> FALSE, before |-> <<>>, after |-> <<>>]

UsersIdle == /\ users = <<>> /\ verification = FALSE
             /\ token = NoSession /\ updUser = NoUserUpdate

PasswordIdle == pwd = [password |-> <<>>, checked |-> FALSE, strong |-> FALSE]

MruIdle == mru = [before |-> <<>>, incoming |-> <<>>, done |-> FALSE, ret |-> <<>>]

NoPurge == [pc |-> "idle", user |-> 0, prj_id |-> 0, only_objects |-> FALSE, why |-> "",
            was_gone |-> FALSE, before |-> <<>>, trace |-> <<>>]

PurgeIdle == prjTable = {} /\ prjContent = <<>> /\ purge = NoPurge

NoCollCall == [op |-> "none", user |-> 0, id |-> 0, code |-> 0, was_erased |-> FALSE]

CollectionIdle == /\ colls = <<>> /\ collProjects = <<>> /\ nextColl = 1
                  /\ erased = {} /\ collCall = NoCollCall

NoPrefCall == [project_id |-> 0, key |-> "", ret |-> "", sets |-> 0]

PrefsIdle == prefRows = <<>> /\ lastSet = <<>> /\ prefCall = NoPrefCall

NoTaxoQuery == [restrict_to |-> {}, restricted |-> FALSE, priority_set |-> {},
                display_name_filter |-> "", done |-> FALSE, res |-> <<>>]

TaxoQueryIdle == taxoNames = <<>> /\ taxoQ = NoTaxoQuery

LineageIdle == taxoTree = <<>> /\ taxonSet = [taxon_ids |-> {}, done |-> FALSE, taxa |-> {}]

NoFieldsCall == [fields_list |-> <<>>, is_none |-> FALSE, done |-> FALSE,
                 raised |-> FALSE, ret |-> <<>>]

FieldsIdle == fieldsCall = NoFieldsCall

NoMailer == [senderaccount |-> <<>>, account_set |-> FALSE, built |-> FALSE,
             calls |-> 0]

NoMailCall == [email |-> <<>>, pc |-> "idle", outcome |-> "none"]

MailIdle == mailer = NoMailer /\ mailCall = NoMailCall /\ smtp = <<>>

NoService == [pc |-> "idle", conn |-> 0, ro_conn |-> 0, rw_new |-> FALSE,
              ro_new |-> FALSE, has_ro |-> FALSE, insts |-> 0, last |-> "none",
              db_before |-> 0]

ServiceIdle == svcClass = <<>> /\ svc = <<>> /\ svcDb = 0

NoMigration == [pc |-> "idle", before |-> <<>>]

MigrationIdle == mdb = <<>> /\ mig = NoMigration

LaterIdle == UsersIdle /\ PasswordIdle /\ MruIdle /\ PurgeIdle /\ CollectionIdle /\ PrefsIdle /\ TaxoQueryIdle /\ LineageIdle /\ FieldsIdle /\ MailIdle /\ ServiceIdle /\ MigrationIdle

(***************************************************************************)
(* SpecStats: the classification calls of ObjectManager, one at a time.    *)
(***************************************************************************)
\* What the call did, for the witnesses:
\*   "kept_V_new_row"  a keep-qualifier call moved a validated object into a
\*                     taxon that had no stat row;
\*   "emptied_unclassified"  the call deleted the row of the unclassified id;
\*   "to_unclassified_new_row"  the call had to insert the unclassified row.
CallHit(wanted_qualif, all_changes, collated, rows) ==
    LET in_db == IdsInDb(rows, DOMAIN collated)
    IN IF /\ wanted_qualif = KEEP_QUAL
          /\ \E b \in all_changes :
                /\ b.key.prev_classif_qual = VALIDATED_CLASSIF_QUAL
                /\ b.key.prev_classif_id # b.key.new_classif_id
                /\ b.key.new_classif_id \notin in_db
       THEN "kept_V_new_row"
       ELSE IF UNCLASSIFIED \in in_db /\ NbrInDb(rows, UNCLASSIFIED) + collated[UNCLASSIFIED].n = 0
       THEN "emptied_unclassified"
       ELSE IF UNCLASSIFIED \in DOMAIN collated \ in_db
       THEN "to_unclassified_new_row"
       ELSE "other"

Classify(op, ids, v, wanted_qualif, same_who) ==
    LET upd == UpdatedObjs(objs, ids, v, wanted_qualif, same_who)
        all_changes == AllChanges(objs, upd, v, wanted_qualif)
        after == ClassifiedObjs(objs, upd, v, wanted_qualif)
        res == propagate_classif_changes(Cardinality(upd), all_changes, objs, after, pts)
    IN /\ objs' = res[1]
       /\ pts' = res[2]
       /\ UNCHANGED outStats
       /\ lastCall' = [op |-> op,
                       hit |-> IF upd = {} THEN "none"
                               ELSE CallHit(wanted_qualif, all_changes,
                                            Collate(all_changes, EmptyChanges), pts),
                       only_taxon |-> NULL, forced_id |-> NULL,
                       nb_upd |-> Cardinality(upd), log |-> <<>>]

\* ObjectManager.classify_set
classify_set ==
    \E ids \in SUBSET Objs \ {{}}, v \in Taxa \cup {KEEP_CLASSIF, NULL},
       wanted_qualif \in {VALIDATED_CLASSIF_QUAL, DUBIOUS_CLASSIF_QUAL}, same_who \in BOOLEAN :
        Classify("classify_set", ids, v, wanted_qualif, same_who)

\* ObjectManager.classify_auto_set
classify_auto_set ==
    \E ids \in SUBSET Objs \ {{}}, v \in Taxa :
        Classify("classify_auto_set", ids, v, PREDICTED_CLASSIF_QUAL, FALSE)

\* The filters of a reclassify call: a category or none, and other criteria
\* or none; the other criteria select the objects of among.
Filters ==
    {f \in [taxo : Taxa \cup {NULL}, others : BOOLEAN, among : SUBSET Objs] :
        ~f.others => f.among = Objs}

\* ObjectSetFilter.category_id_only: the category of a filter made of one
\* category and nothing else, None otherwise.
category_id_only(filters) ==
    IF filters.taxo # NULL /\ ~filters.others THEN filters.taxo ELSE NULL

\* impacted_objs = [r[0] for r in self.query(current_user_id, proj_id, filters)[0]]
impacted_objs(o, filters) ==
    {x \in filters.among : filters.taxo = NULL \/ o[x].classif_id = filters.taxo}

\* ReClassificationBO.add_log: the row added to the session.
add_log(only_taxon, forced_id, nb_upd) ==
    [from_id |-> only_taxon, to_id |-> forced_id, nb_objects |-> nb_upd]

\* The rows added to the session that are in the table after
\* propagate_classif_changes: session.commit() if nb_upd > 0, else
\* session.rollback().
LogPersisted(nb_upd, added) == IF nb_upd > 0 THEN added ELSE <<>>

\* ObjectManager.reclassify
reclassify ==
    \E filters \in Filters, forced_id \in Taxa :
        LET only_taxon == category_id_only(filters)
            ids == impacted_objs(objs, filters)
            upd == UpdatedObjs(objs, ids, forced_id, KEEP_QUAL, TRUE)
            nb_upd == Cardinality(upd)
            all_changes == AllChanges(objs, upd, forced_id, KEEP_QUAL)
            after == ClassifiedObjs(objs, upd, forced_id, KEEP_QUAL)
            added == IF only_taxon # NULL
                     THEN <<add_log(only_taxon, forced_id, nb_upd)>> ELSE <<>>
            res == propagate_classif_changes(nb_upd, all_changes, objs, after, pts)
        IN /\ objs' = res[1]
           /\ pts' = res[2]
           /\ UNCHANGED outStats
           /\ lastCall' = [op |-> "reclassify",
                           hit |-> IF upd = {} THEN "none"
                                   ELSE CallHit(KEEP_QUAL, all_changes,
                                                Collate(all_changes, EmptyChanges), pts),
                           only_taxon |-> only_taxon, forced_id |-> forced_id,
                           nb_upd |-> nb_upd,
                           log |-> LogPersisted(nb_upd, added)]

StatsInitObjs ==
    [Objs -> {[classif_id |-> NULL, classif_qual |-> NO_QUAL]}
             \cup {[classif_id |-> t, classif_qual |-> PREDICTED_CLASSIF_QUAL] : t \in Taxa}]

StatsInit ==
    /\ objs \in StatsInitObjs
    /\ pts = update_taxo_stats(objs)
    /\ lastCall = NoCall
    /\ ConcIdle /\ DelIdle /\ QueryIdle /\ JobsIdle /\ NightIdle /\ ProjectIdle /\ LaterIdle

StatsNext == classify_set \/ classify_auto_set \/ reclassify

SpecStats == StatsInit /\ [][StatsNext]_vars

TypeStats == objs \in [Objs -> ObjState]

\* C1: after any sequence of classification changes propagated through
\* propagate_classif_changes, the projects_taxo_stat rows of the project are
\* the rows a full update_taxo_stats recompute gives for the present objects.
C1_IncrementalEqualsFull == pts = update_taxo_stats(objs)

\* C1 witness: a reclassify with the keep-qualifier has moved a validated
\* object into a taxon that had no stat row yet.
C1_Witness == lastCall.op = "reclassify" /\ lastCall.hit = "kept_V_new_row"

\* C23: after reclassify returns, one log entry (source taxon, forced taxon,
\* number of updated objects) has been persisted when the filter is a
\* single-category filter, and none when it is not, whatever the number of
\* objects the call updated, zero included.
C23_LogIffSingleCategory ==
    lastCall.op = "reclassify" =>
        lastCall.log = IF lastCall.only_taxon # NULL
                       THEN <<[from_id |-> lastCall.only_taxon,
                               to_id |-> lastCall.forced_id,
                               nb_objects |-> lastCall.nb_upd]>>
                       ELSE <<>>

\* What the code does: the entry of a single-category filter is persisted
\* when the call updated an object and rolled back when it updated none.
C23_LogWhenUpdated ==
    lastCall.op = "reclassify" =>
        /\ Len(lastCall.log) = (IF lastCall.only_taxon # NULL /\ lastCall.nb_upd > 0
                                 THEN 1 ELSE 0)
        /\ lastCall.log # <<>> =>
              /\ lastCall.log[1].from_id = lastCall.only_taxon
              /\ lastCall.log[1].to_id = lastCall.forced_id
              /\ lastCall.log[1].nb_objects = lastCall.nb_upd

C23_NothingUpdatedNoLog ==
    /\ lastCall.op = "reclassify"
    /\ lastCall.only_taxon # NULL
    /\ lastCall.nb_upd = 0
    /\ lastCall.log = <<>>

(***************************************************************************)
(* SpecConc: two transactions, each classifying objects and then running   *)
(* ProjectBO.incremental_update_taxo_stats statement by statement, under   *)
(* PostgreSQL's READ COMMITTED isolation and row locks.                    *)
(***************************************************************************)
Other(t) == CHOOSE u \in Txs : u # t

Active(t) == tx[t].pc \notin {"idle", "committed", "aborted"}

\* obj_head as transaction t sees it: the committed rows and its own updates.
View(t) == [x \in Objs |-> IF x \in DOMAIN tx[t].mine THEN tx[t].mine[x] ELSE objs[x]]


\* The classification UPDATE of obj_head and the collation: the transaction
\* holds the row locks of the objects it updates until it ends.
Begin(t) ==
    /\ tx[t].pc = "idle"
    /\ \E ids \in SUBSET Objs \ {{}}, v \in Taxa \cup {NULL},
          wanted_qualif \in {VALIDATED_CLASSIF_QUAL, KEEP_QUAL} :
        LET upd == UpdatedObjs(objs, ids, v, wanted_qualif, TRUE)
            all_changes == AllChanges(objs, upd, v, wanted_qualif)
            after == ClassifiedObjs(objs, upd, v, wanted_qualif)
        IN /\ upd # {}                                    \* nb_upd > 0
           /\ ids \cap DOMAIN tx[Other(t)].mine = {}
           /\ tx' = [tx EXCEPT ![t] = [IdleTx EXCEPT
                        !.pc = "lock_taxo",
                        !.mine = [x \in upd |-> after[x]],
                        !.collated = Collate(all_changes, EmptyChanges)]]
    /\ UNCHANGED <<objs, pts, lastCall, pk, outConc>>

\* SELECT id FROM taxonomy WHERE id = ANY(:ids) FOR NO KEY UPDATE, one row
\* lock at a time; the unclassified id has no taxonomy row.
TaxoToLock(t) == (DOMAIN tx[t].collated \cap Taxa) \ tx[t].taxo_locks

LockTaxo(t) ==
    /\ tx[t].pc = "lock_taxo"
    /\ IF TaxoToLock(t) = {}
       THEN tx' = [tx EXCEPT ![t].pc = "select_pts"]
       ELSE LET id == Min(TaxoToLock(t))
            IN /\ id \notin tx[Other(t)].taxo_locks
               /\ tx' = [tx EXCEPT ![t].taxo_locks = @ \cup {id}]
    /\ UNCHANGED <<objs, pts, lastCall, pk, outConc>>

\* SELECT id, nbr FROM projects_taxo_stat ... FOR NO KEY UPDATE: the rows of
\* the statement's snapshot ...
SelectPts(t) ==
    /\ tx[t].pc = "select_pts"
    /\ tx' = [tx EXCEPT ![t].pc = "lock_pts",
                        ![t].to_lock = IdsInDb(pts, DOMAIN tx[t].collated)]
    /\ UNCHANGED <<objs, pts, lastCall, pk, outConc>>

\* ... each locked in turn, waiting for the holder to end; a row deleted
\* meanwhile is skipped, an updated one is returned in its last version.
LockPts(t) ==
    /\ tx[t].pc = "lock_pts"
    /\ IF tx[t].to_lock = {}
       THEN tx' = [tx EXCEPT ![t].pc = "insert"]
       ELSE LET id == Min(tx[t].to_lock)
            IN /\ id \notin tx[Other(t)].pts_locks
               /\ IF \E r \in pts : r.id = id
                  THEN tx' = [tx EXCEPT
                         ![t].to_lock = @ \ {id},
                         ![t].pts_locks = @ \cup {id},
                         ![t].ids_in_db = [i \in DOMAIN @ \cup {id} |->
                                             IF i = id THEN NbrInDb(pts, id) ELSE @[i]]]
                  ELSE tx' = [tx EXCEPT ![t].to_lock = @ \ {id}]
    /\ UNCHANGED <<objs, pts, lastCall, pk, outConc>>

IdsNotInDb(t) == DOMAIN tx[t].collated \ DOMAIN tx[t].ids_in_db

\* Rollback: the exception leaves the Service, whose session is closed.
Aborted(t) == [IdleTx EXCEPT !.pc = "aborted"]

\* INSERT INTO projects_taxo_stat ... for ids_not_in_db.  Under a unique key
\* the INSERT waits for a transaction that has inserted the same key and has
\* not ended, and fails when the key is committed.
InsertMissing(t) ==
    /\ tx[t].pc = "insert"
    /\ LET rows == InsertedRows(View(t), IdsNotInDb(t))
           keys == {r.id : r \in rows}
       IN IF pk
          THEN /\ keys \cap {r.id : r \in tx[Other(t)].ins} = {}
               /\ IF keys \cap {r.id : r \in pts} # {}
                  THEN tx' = [tx EXCEPT ![t] = Aborted(t)]
                  ELSE tx' = [tx EXCEPT ![t].pc = "delta", ![t].ins = rows]
          ELSE tx' = [tx EXCEPT ![t].pc = "delta", ![t].ins = rows]
    /\ UNCHANGED <<objs, pts, lastCall, pk, outConc>>

\* The DELETE / UPDATE of each row read by the locking SELECT; the rows are
\* locked by this transaction, the writes show at its commit.
DeltaOps(t) ==
    /\ tx[t].pc = "delta"
    /\ tx' = [tx EXCEPT ![t].pc = "commit",
                        ![t].ops = [i \in DOMAIN tx[t].ids_in_db |->
                                      [nbr_read |-> tx[t].ids_in_db[i],
                                       chg |-> tx[t].collated[i]]]]
    /\ UNCHANGED <<objs, pts, lastCall, pk, outConc>>

RECURSIVE ApplyOps(_, _, _)
ApplyOps(rows, ids, ops) ==
    IF ids = {} THEN rows
    ELSE LET id == CHOOSE i \in ids : TRUE
         IN ApplyOps(ApplyDelta(rows, id, ops[id].nbr_read, ops[id].chg), ids \ {id}, ops)

\* self.session.commit() of propagate_classif_changes.
Commit(t) ==
    /\ tx[t].pc = "commit"
    /\ objs' = View(t)
    /\ pts' = ApplyOps(pts, DOMAIN tx[t].ops, tx[t].ops) \cup tx[t].ins
    /\ tx' = [tx EXCEPT ![t] = [IdleTx EXCEPT !.pc = "committed", !.collated = tx[t].collated]]
    /\ UNCHANGED <<lastCall, pk, outConc>>

ConcInit ==
    /\ objs \in StatsInitObjs
    /\ pts = update_taxo_stats(objs)
    /\ lastCall = NoCall
    /\ tx = [t \in Txs |-> IdleTx]
    /\ pk \in BOOLEAN
    /\ DelIdle /\ QueryIdle /\ JobsIdle /\ NightIdle /\ ProjectIdle /\ LaterIdle

ConcNext ==
    \/ \E t \in Txs : Begin(t)
    \/ \E t \in Txs : LockTaxo(t)
    \/ \E t \in Txs : SelectPts(t)
    \/ \E t \in Txs : LockPts(t)
    \/ \E t \in Txs : InsertMissing(t)
    \/ \E t \in Txs : DeltaOps(t)
    \/ \E t \in Txs : Commit(t)

SpecConc == ConcInit /\ [][ConcNext]_vars

BothEnded == \A t \in Txs : tx[t].pc \in {"committed", "aborted"}

NoDuplicateRow(rows) == \A r1, r2 \in rows : r1.id = r2.id => r1 = r2

\* C2: two transactions that run incremental_update_taxo_stats concurrently
\* on overlapping taxon ids both go through, and the rows they leave are
\* those of running them one after the other: the rows of the final objects,
\* one row per taxon.
C2_Serialized ==
    BothEnded =>
        /\ \A t \in Txs : tx[t].pc = "committed"
        /\ pts = update_taxo_stats(objs)
        /\ NoDuplicateRow(pts)


(***************************************************************************)
(* SpecDelete: ObjectManager.delete, step by step, with the VaultRemover   *)
(* thread removing the image files beside it.                              *)
(***************************************************************************)
MaxDelObj == 3
MaxProj == 2
\* ObjectManager.CHUNK_SIZE, scaled down to the size of the model.
ChunkSize == 2

DelObjs == 1..MaxDelObj
\* An object id that was never allocated.
FabricatedId == MaxDelObj + 1
Projects == 1..MaxProj
Users == {1, 2}
\* User 2 is an application administrator.
AppAdmins == {2}

\* RightsBO.user_wants(session, user, Action.ADMINISTRATE, project)
HasAdministrate(user, prj) == user \in AppAdmins \/ prj \in manages[user]

\* The sorted sequence of a set of integers.
RECURSIVE SortedSeq(_)
SortedSeq(S) == IF S = {} THEN <<>> ELSE <<Min(S)>> \o SortedSeq(S \ {Min(S)})

\* EnumeratedObjectSet.get_projects_ids: the distinct projects of the
\* objects of the list that exist.
get_projects_ids(object_ids) == SortedSeq({objProj[x] : x \in object_ids \cap dObjects})

\* One row of samples, acquisitions or process: its key, its project, its
\* natural id and the rest of its fields.
ParentRow(id, projid, tbl, orig_id, data) ==
    [pk |-> id, projid |-> projid, tbl |-> tbl, orig_id |-> orig_id, data |-> data]

CleanParents == {ParentRow(1, 1, "samples", "s1", "x"), ParentRow(2, 1, "acquisitions", "a1", "x"),
                 ParentRow(3, 2, "samples", "s1", "x")}

\* The parents of the projects: without problem, with a sample fully
\* duplicated, with two samples of the same orig_id that differ.
ParentTables == {CleanParents,
                 CleanParents \cup {ParentRow(4, 1, "samples", "s1", "x")},
                 CleanParents \cup {ParentRow(4, 2, "samples", "s1", "y")}}

\* ProjectConsistencyChecker.check_duplicate_parents: the rows of a table in
\* the project with the orig_id of another one, two by two.
check_duplicate_parents(parents, prj_id) ==
    {[tbl |-> a.tbl, orig_id |-> a.orig_id, pks |-> {a.pk, b.pk},
      problem |-> IF a.data = b.data THEN "is fully duplicated"
                  ELSE "is equal, but other fields differ"] :
        <<a, b>> \in {<<x, y>> \in parents \X parents :
                         /\ x.projid = prj_id /\ y.projid = prj_id
                         /\ x.tbl = y.tbl /\ x.orig_id = y.orig_id /\ x.pk < y.pk}}

\* The object count update_taxo_stats / update_stats record for a project.
ObjCount(prj, objects) == Cardinality({x \in objects : objProj[x] = prj})

DbSnapshot == [objects |-> dObjects, images |-> dImages, files |-> dFiles, stats |-> dStats,
               parents |-> dParents]

\* obj_set = EnumeratedObjectSet(...); prj_ids = obj_set.get_projects_ids()
DeleteCall ==
    /\ del.pc = "idle"
    /\ \E user \in Users, object_ids \in SUBSET (DelObjs \cup {FabricatedId}) \ {{}} :
         del' = [NoDelete EXCEPT !.pc = "rights", !.user = user, !.ids = object_ids,
                                 !.prj_ids = get_projects_ids(object_ids),
                                 !.to_check = get_projects_ids(object_ids),
                                 !.before = DbSnapshot]
    /\ UNCHANGED <<dParents, objProj, dObjects, dImages, dFiles, dStats, manages, remover, outDelete>>

\* A rights loop that stops after the first project.
CheckRights_FirstOnly ==
    /\ del.pc = "rights"
    /\ IF del.to_check # <<>> /\ ~HasAdministrate(del.user, Head(del.to_check))
       THEN del' = [del EXCEPT !.pc = "failed"]
       ELSE del' = [del EXCEPT !.pc = "start_remover", !.to_check = <<>>]
    /\ UNCHANGED <<dParents, objProj, dObjects, dImages, dFiles, dStats, manages, remover, outDelete>>

\* for a_prj_id in prj_ids: RightsBO.user_wants(..., Action.ADMINISTRATE, a_prj_id)
\* A project without the right raises: the call ends, the session is closed.
CheckRights ==
    /\ del.pc = "rights"
    /\ IF del.to_check = <<>>
       THEN del' = [del EXCEPT !.pc = "start_remover"]
       ELSE IF HasAdministrate(del.user, Head(del.to_check))
            THEN del' = [del EXCEPT !.to_check = Tail(@)]
            ELSE del' = [del EXCEPT !.pc = "failed"]
    /\ UNCHANGED <<dParents, objProj, dObjects, dImages, dFiles, dStats, manages, remover, outDelete>>

\* A deletion that takes every id of the list for an object.
StartRemover_AllIds ==
    /\ del.pc = "start_remover"
    /\ remover' = [started |-> TRUE, queue |-> {}]
    /\ del' = [del EXCEPT !.pc = "deleting", !.todo = del.ids]
    /\ UNCHANGED <<dParents, objProj, dObjects, dImages, dFiles, dStats, manages, outDelete>>

\* remover = VaultRemover(self.config, logger).do_start()
StartRemover ==
    /\ del.pc = "start_remover"
    /\ remover' = [started |-> TRUE, queue |-> {}]
    /\ del' = [del EXCEPT !.pc = "deleting", !.todo = del.ids \cap dObjects]
    /\ UNCHANGED <<dParents, objProj, dObjects, dImages, dFiles, dStats, manages, outDelete>>

\* obj_set.delete(CHUNK_SIZE, remover.add_files): one chunk of objects, their
\* image rows removed and their files handed to the remover.
DeleteChunk ==
    /\ del.pc = "deleting"
    /\ IF del.todo = {}
       THEN /\ del' = [del EXCEPT !.pc = "stats", !.stats_todo = del.prj_ids]
            /\ UNCHANGED <<dObjects, dImages, remover>>
       ELSE \E chunk \in SUBSET del.todo :
              /\ chunk # {}
              /\ Cardinality(chunk) = IF Cardinality(del.todo) < ChunkSize
                                      THEN Cardinality(del.todo) ELSE ChunkSize
              /\ \A x \in chunk, y \in del.todo \ chunk : x < y
              /\ dObjects' = dObjects \ chunk
              /\ dImages' = dImages \ chunk
              /\ remover' = [remover EXCEPT !.queue = @ \cup (chunk \cap dImages)]
              /\ del' = [del EXCEPT !.todo = @ \ chunk,
                                    !.trace = Append(@, <<"delete", 0>>),
                                    !.nb_objs = @ + Cardinality(chunk),
                                    !.nb_img_rows = @ + Cardinality(chunk \cap dImages),
                                    !.img_files = @ \cup (chunk \cap dImages)]
    /\ UNCHANGED <<dParents, objProj, dFiles, dStats, manages, outDelete>>

\* for prj_id in prj_ids: update_taxo_stats, then update_stats
UpdateStats ==
    /\ del.pc = "stats"
    /\ IF del.stats_todo = <<>>
       THEN del' = [del EXCEPT !.pc = "commit"] /\ UNCHANGED dStats
       ELSE /\ dStats' = [dStats EXCEPT ![Head(del.stats_todo)] =
                                            ObjCount(Head(del.stats_todo), dObjects)]
            /\ del' = [del EXCEPT !.stats_todo = Tail(@),
                                  !.trace = @ \o <<<<"update_taxo_stats", Head(del.stats_todo)>>,
                                                   <<"update_stats", Head(del.stats_todo)>>>>]
    /\ UNCHANGED <<dParents, objProj, dObjects, dImages, dFiles, manages, remover, outDelete>>

\* self.session.commit()
DeleteCommit ==
    /\ del.pc = "commit"
    /\ del' = [del EXCEPT !.pc = "wait", !.trace = Append(@, <<"commit", 0>>)]
    /\ UNCHANGED <<dParents, objProj, dObjects, dImages, dFiles, dStats, manages, remover, outDelete>>

\* A wait that ends while the remover still holds files.
WaitForDone_NoWait ==
    /\ del.pc = "wait"
    /\ del' = [del EXCEPT !.pc = "returned", !.trace = Append(@, <<"wait_for_done", 0>>)]
    /\ remover' = [remover EXCEPT !.started = FALSE]
    /\ UNCHANGED <<dParents, objProj, dObjects, dImages, dFiles, dStats, manages, outDelete>>

\* remover.wait_for_done(); return nb_objs, 0, nb_img_rows, len(img_files)
WaitForDone ==
    /\ del.pc = "wait"
    /\ remover.queue = {}
    /\ del' = [del EXCEPT !.pc = "returned", !.trace = Append(@, <<"wait_for_done", 0>>)]
    /\ remover' = [remover EXCEPT !.started = FALSE]
    /\ UNCHANGED <<dParents, objProj, dObjects, dImages, dFiles, dStats, manages, outDelete>>

\* The remover thread removes one file of its queue.
RemoveFile ==
    /\ remover.started
    /\ \E f \in remover.queue :
         /\ dFiles' = dFiles \ {f}
         /\ remover' = [remover EXCEPT !.queue = @ \ {f}]
    /\ UNCHANGED <<dParents, objProj, dObjects, dImages, dStats, manages, del, outDelete>>

\* The Service is left (with ... as sce): the next request may come.
DeleteEnd ==
    /\ del.pc \in {"failed", "returned"}
    /\ del' = NoDelete
    /\ UNCHANGED <<dParents, objProj, dObjects, dImages, dFiles, dStats, manages, remover, outDelete>>

DeleteInit ==
    /\ objProj \in [DelObjs -> Projects]
    /\ dObjects \in {DelObjs, DelObjs \ {MaxDelObj}}
    /\ dImages = dObjects
    /\ dFiles = dObjects
    /\ dStats = [p \in Projects |-> ObjCount(p, dObjects)]
    /\ manages \in {[u \in Users |-> IF u = 1 THEN m ELSE {}] : m \in SUBSET Projects}
    /\ dParents \in ParentTables
    /\ remover = [started |-> FALSE, queue |-> {}]
    /\ del = NoDelete
    /\ StatsIdle /\ ConcIdle /\ QueryIdle /\ JobsIdle /\ NightIdle /\ ProjectIdle /\ LaterIdle

DeleteNext ==
    \/ DeleteCall \/ CheckRights \/ StartRemover \/ DeleteChunk \/ UpdateStats
    \/ DeleteCommit \/ WaitForDone \/ RemoveFile \/ DeleteEnd

SpecDelete == DeleteInit /\ [][DeleteNext]_vars

\* The projects owning at least one of the target objects.
TargetProjects == {objProj[x] : x \in del.ids \cap del.before.objects}

LacksARight == \E p \in TargetProjects : ~HasAdministrate(del.user, p)

\* C3: when the caller lacks the Administrate right on one of the projects
\* that own a target object, the call never goes past the rights checks and
\* no object, image row, image file or statistic is changed.
C3_NoEffectWithoutRights ==
    (del.pc # "idle" /\ LacksARight) =>
        /\ del.pc \in {"rights", "failed"}
        /\ DbSnapshot = del.before

\* C3 witness: the call has failed on a target set that spans a project the
\* caller administrates and one the caller does not.
C3_Witness ==
    /\ del.pc = "failed"
    /\ \E p \in TargetProjects : HasAdministrate(del.user, p)
    /\ \E p \in TargetProjects : ~HasAdministrate(del.user, p)
    /\ Head(del.prj_ids) \in manages[del.user]
    /\ del.ids \cap del.before.objects # del.ids

\* ObjectManager.delete's return value: nb_objs, 0, nb_img_rows, len(img_files)
DeleteResult == <<del.nb_objs, 0, del.nb_img_rows, Cardinality(del.img_files)>>

NoneExists == del.ids \cap del.before.objects = {}

\* C14: a delete called with ids none of which is an existing object never
\* changes an object, an image row, an image file, a parent row or a
\* statistic, returns (0, 0, 0, 0), and the consistency check of every
\* project reports after it what it reported before.
C14_NoObjectNoEffect ==
    (del.pc # "idle" /\ NoneExists) =>
        /\ DbSnapshot = del.before
        /\ \A p \in Projects :
              check_duplicate_parents(dParents, p) = check_duplicate_parents(del.before.parents, p)
        /\ del.pc # "failed"
        /\ del.pc = "returned" => DeleteResult = <<0, 0, 0, 0>>

\* C14 witness: such a call has returned, to a user who administrates no
\* project, while one project has a consistency problem to report.
C14_Witness ==
    /\ del.pc = "returned"
    /\ NoneExists
    /\ Cardinality(del.ids) = 2
    /\ del.user \notin AppAdmins /\ manages[del.user] = {}
    /\ \E p \in Projects : check_duplicate_parents(dParents, p) # {}

\* The positions of the trace of the delete call holding one kind of step.
TraceIdx(what) == {i \in DOMAIN del.trace : del.trace[i][1] = what}

\* C24: in a delete call, update_taxo_stats and then update_stats run for
\* each impacted project after all object rows have been deleted and before
\* the commit; the wait for the file remover starts only after that commit;
\* delete returns only once the remover has finished with every file handed
\* to it.
C24_StatsThenCommitThenWait ==
    /\ \A i \in TraceIdx("update_taxo_stats") :
          /\ \A k \in TraceIdx("delete") : k < i
          /\ del.ids \cap dObjects = {}
          /\ i + 1 \in TraceIdx("update_stats")
          /\ del.trace[i + 1][2] = del.trace[i][2]
          /\ \A k \in TraceIdx("commit") : i + 1 < k
    /\ \A i \in TraceIdx("update_stats") :
          i - 1 \in TraceIdx("update_taxo_stats")
    /\ \A k \in TraceIdx("commit") :
          \A n \in DOMAIN del.prj_ids :
              \E i \in TraceIdx("update_taxo_stats") :
                  i < k /\ del.trace[i][2] = del.prj_ids[n]
    /\ del.pc = "wait" => TraceIdx("commit") # {}
    /\ \A i \in TraceIdx("wait_for_done") : \E k \in TraceIdx("commit") : k < i
    /\ del.pc = "returned" =>
          /\ TraceIdx("wait_for_done") # {}
          /\ remover.queue = {}
          /\ del.img_files \cap dFiles = {}

\* C24 witness: a delete over two projects, with files removed, has returned.
C24_Witness ==
    /\ del.pc = "returned"
    /\ Len(del.prj_ids) = 2
    /\ Cardinality(del.img_files) >= 2
    /\ Cardinality(TraceIdx("delete")) >= 2

(***************************************************************************)
(* SpecQuery: ObjectManager.query and ObjectManager.summary on one project *)
(* whose data does not change, and a client reading the result of a query  *)
(* window after window.                                                    *)
(***************************************************************************)
MaxQObj == 3

QObjs == 1..MaxQObj
\* The values of a column: SQL NULL and two values, so that NULLs and
\* repeated values both occur among MaxQObj rows.
QVals == {NULL, 1, 2}
QUsers == {ANONYMOUS, 1}

\* An order field "prfx.name" or "-prfx.name"; prfx "" stands for a string
\* without a dot.
OrderField(minus, prfx, name) == [given |-> TRUE, minus |-> minus, prfx |-> prfx, name |-> name]

\* The columns of ObjectHeader the model knows.
ObjectHeaderCols == {"objid", "depth_min", "classif_when"}
\* The columns of Taxonomy the model knows.
TaxonomyCols == {"name"}
\* Columns of Image, Sample, Acquisition and User.
ImageCols == {"imgrank"}
SampleCols == {"orig_id", "latitude"}
AcquisitionCols == {"instrument"}
UserCols == {"email"}
\* What the __dict__ of a mapped class holds beside its columns: the names
\* of its other attributes, such as __tablename__, and of its methods.
ClassAttrs == {"__tablename__"}
ObjectHeaderDict == ObjectHeaderCols \cup ClassAttrs
TaxonomyDict == TaxonomyCols \cup ClassAttrs
ImageDict == ImageCols \cup ClassAttrs
SampleDict == SampleCols \cup ClassAttrs \cup {"propagate_geo"}
AcquisitionDict == AcquisitionCols \cup ClassAttrs
UserDict == UserCols \cup ClassAttrs \cup {"find_users"}
\* mappings.tsv_cols_to_real: the free column "area" is stored in n01.
tsv_cols_to_real == [n \in {"area"} |-> "n01"]

\* _field_to_db_col returns None
NoDbCol == [alias |-> "", col |-> ""]

\* The text returned for obj.imgcount, as order_expr.split(".", 1) cuts it.
ImgCountCol == [alias |-> "(SELECT COUNT(img2",
                col |-> "imgrank) FROM images img2 WHERE img2.objid = obh.objid) AS imgcount"]

\* ObjectBO._field_to_db_col, followed by order_expr.split(".", 1)
field_to_db_col(prfx, name) ==
    IF prfx = "obj"
    THEN IF name \in ObjectHeaderDict THEN [alias |-> "obh", col |-> name]
         ELSE IF name = "imgcount" THEN ImgCountCol
         ELSE NoDbCol
    ELSE IF prfx = "fre"
    THEN IF name \in DOMAIN tsv_cols_to_real
         THEN [alias |-> "obf", col |-> tsv_cols_to_real[name]]
         ELSE NoDbCol
    ELSE IF prfx = "img"
    THEN IF name \in ImageDict THEN [alias |-> prfx, col |-> name] ELSE NoDbCol
    ELSE IF prfx \in {"txo", "txp"}
    THEN IF name \in TaxonomyDict THEN [alias |-> prfx, col |-> name] ELSE NoDbCol
    ELSE IF prfx = "sam"
    THEN IF name \in SampleDict THEN [alias |-> prfx, col |-> name] ELSE NoDbCol
    ELSE IF prfx = "acq"
    THEN IF name \in AcquisitionDict THEN [alias |-> prfx, col |-> name] ELSE NoDbCol
    ELSE IF prfx = "usr"
    THEN IF name \in UserDict THEN [alias |-> prfx, col |-> name] ELSE NoDbCol
    ELSE NoDbCol

\* "_when" in order_col
HasWhen(order_col) == order_col \in {"classif_when"}

\* OrderClause.add_expression: the clause with one more expression.
add_expression(clause, alias, expr, asc_or_desc, invert_nulls_first) ==
    LET dir == IF asc_or_desc = "" THEN "ASC" ELSE asc_or_desc
        nulls == IF invert_nulls_first
                 THEN (IF dir = "ASC" THEN "NULLS FIRST" ELSE "NULLS LAST")
                 ELSE ""
    IN Append(clause, [alias |-> alias, col |-> expr, dir |-> dir, nulls |-> nulls])

\* OrderClause.referenced_columns
referenced_columns(clause) == {<<clause[i].alias, clause[i].col>> : i \in DOMAIN clause}

\* cook_order_clause returns None
NoOrderClause == <<>>

\* ObjectManager.cook_order_clause without the disambiguation by object id.
cook_order_clause_NoTieBreak(order_field) ==
    IF ~order_field.given THEN NoOrderClause
    ELSE LET asc_desc == IF order_field.minus THEN "DESC" ELSE ""
             order_expr == field_to_db_col(order_field.prfx, order_field.name)
         IN IF order_expr = NoDbCol THEN NoOrderClause
            ELSE add_expression(<<>>, order_expr.alias, order_expr.col, asc_desc,
                                HasWhen(order_expr.col))

\* ObjectManager.cook_order_clause
cook_order_clause(order_field) ==
    IF ~order_field.given THEN NoOrderClause
    ELSE LET asc_desc == IF order_field.minus THEN "DESC" ELSE ""
             order_expr == field_to_db_col(order_field.prfx, order_field.name)
         IN IF order_expr = NoDbCol THEN NoOrderClause
            ELSE LET ret == add_expression(<<>>, order_expr.alias, order_expr.col, asc_desc,
                                           HasWhen(order_expr.col))
                 IN IF order_expr.alias = "obf"
                    THEN add_expression(ret, "obf", "objfid", asc_desc, FALSE)
                    ELSE IF <<"obh", "objid">> \notin referenced_columns(ret)
                         THEN add_expression(ret, "obh", "objid", asc_desc, FALSE)
                         ELSE ret

\* The aliases of the tables the statement of query can join.
SqlAliases == {"obh", "obf", "txo", "txp"}

\* The value a row shows in a column: its id in the two key columns, and, in
\* every other column, the one value the model keeps for the row.
ColValue(x, alias, col) ==
    IF <<alias, col>> \in {<<"obh", "objid">>, <<"obf", "objfid">>} THEN x ELSE qdb[x].val

\* PostgreSQL: NULLs sort as larger than any value unless NULLS FIRST / LAST
\* says otherwise.
NullsFirst(e) ==
    IF e.nulls = "NULLS FIRST" THEN TRUE
    ELSE IF e.nulls = "NULLS LAST" THEN FALSE
    ELSE e.dir = "DESC"

\* Row x sorts strictly before row y by the expression e.
ExprBefore(x, y, e) ==
    LET vx == ColValue(x, e.alias, e.col)
        vy == ColValue(y, e.alias, e.col)
    IN IF vx = NULL /\ vy = NULL THEN FALSE
       ELSE IF vx = NULL THEN NullsFirst(e)
       ELSE IF vy = NULL THEN ~NullsFirst(e)
       ELSE IF e.dir = "ASC" THEN vx < vy ELSE vx > vy

ExprTie(x, y, e) == ColValue(x, e.alias, e.col) = ColValue(y, e.alias, e.col)

\* Row x sorts strictly before row y by ORDER BY clause[i], clause[i+1], ...
RECURSIVE ClauseBefore(_, _, _, _)
ClauseBefore(x, y, clause, i) ==
    IF i > Len(clause) THEN FALSE
    ELSE \/ ExprBefore(x, y, clause[i])
         \/ ExprTie(x, y, clause[i]) /\ ClauseBefore(x, y, clause, i + 1)

\* The rows of S that no other row of S sorts strictly before.
Firsts(S, clause) == {x \in S : \A y \in S : ~ClauseBefore(y, x, clause, 1)}

\* The listings the database may return for ORDER BY clause: rows that the
\* clause does not tell apart come in any order, and without a clause every
\* listing is possible.
RECURSIVE SortedListings(_, _)
SortedListings(S, clause) ==
    IF S = {} THEN {<<>>}
    ELSE UNION {{<<x>> \o p : p \in SortedListings(S \ {x}, clause)} : x \in Firsts(S, clause)}

\* OFFSET window_start LIMIT window_size
Window(rows, window_start, window_size) ==
    LET from == IF window_start = NoWindow THEN 1 ELSE window_start + 1
        rest == Len(rows) - from + 1
        nb == IF rest < 0 THEN 0
              ELSE IF window_size = NoWindow \/ window_size > rest THEN rest
              ELSE window_size
    IN SubSeq(rows, from, from + nb - 1)

\* The status filters of the model: all, validated, predicted, not validated.
StatusFilters == {"", "V", "P", "NV"}

\* ObjectSetFilter: the condition on obh.classif_qual for a statusfilter.
StatusMatches(statusfilter, classif_qual) ==
    IF statusfilter = "" THEN TRUE
    ELSE IF statusfilter = "NV" THEN classif_qual # VALIDATED_CLASSIF_QUAL
    ELSE classif_qual = statusfilter

\* DescribedObjectSet(...).get_sql(): the rows of the WHERE clause.
Matching(filters) == {x \in QObjs : StatusMatches(filters.statusfilter, qdb[x].classif_qual)}

\* RightsBO.anonymous_wants(session, Action.READ, proj_id) does not raise.
anonymous_wants == prjVisible

\* A caller-supplied filter set used as it comes.
SecuredFilters_AsGiven(current_user_id, filters) == filters

\* Security check of query and summary: filters["statusfilter"] = "V" for
\* the anonymous caller.
SecuredFilters(current_user_id, filters) ==
    IF current_user_id = ANONYMOUS
    THEN [filters EXCEPT !.statusfilter = VALIDATED_CLASSIF_QUAL]
    ELSE filters

\* The security check raises.
Denied(current_user_id) == current_user_id = ANONYMOUS /\ ~anonymous_wants

CountOf(S, qual) == Cardinality({x \in S : qdb[x].classif_qual = qual})

\* ObjectManager.summary: nbr, nbr_v, nbr_d, nbr_p (NULL when only_total).
summary(current_user_id, filters, only_total) ==
    IF Denied(current_user_id) THEN [NoAnswer EXCEPT !.outcome = "denied"]
    ELSE LET rows == Matching(SecuredFilters(current_user_id, filters))
         IN [outcome |-> "ok", ids |-> <<>>, total |-> Cardinality(rows),
             nbr_v |-> IF only_total THEN NULL ELSE CountOf(rows, VALIDATED_CLASSIF_QUAL),
             nbr_d |-> IF only_total THEN NULL ELSE CountOf(rows, DUBIOUS_CLASSIF_QUAL),
             nbr_p |-> IF only_total THEN NULL ELSE CountOf(rows, PREDICTED_CLASSIF_QUAL)]

\* ObjectManager.query: the answers the call may give.  The statement fails
\* when the order clause names something that is no column of a joined table.
query(current_user_id, filters, order_field, window_start, window_size) ==
    IF Denied(current_user_id) THEN {[NoAnswer EXCEPT !.outcome = "denied"]}
    ELSE LET secured == SecuredFilters(current_user_id, filters)
             order_clause == cook_order_clause(order_field)
         IN IF \E i \in DOMAIN order_clause : order_clause[i].alias \notin SqlAliases
            THEN {[NoAnswer EXCEPT !.outcome = "sql_error"]}
            ELSE {[NoAnswer EXCEPT !.outcome = "ok",
                                   !.ids = Window(rows, window_start, window_size),
                                   !.total = summary(current_user_id, secured, TRUE).total]
                  : rows \in SortedListings(Matching(secured), order_clause)}

\* The order fields of single calls.
CallOrderFields ==
    {NoOrderField, OrderField(FALSE, "obj", "nosuch"),
     OrderField(TRUE, "obj", "depth_min"), OrderField(FALSE, "obj", "imgcount")}

\* The order fields of a client reading window after window.
ScanOrderFields ==
    {OrderField(minus, f[1], f[2]) :
            minus \in BOOLEAN,
            f \in {<<"obj", "objid">>, <<"obj", "depth_min">>, <<"obj", "classif_when">>,
                   <<"fre", "area">>, <<"txo", "name">>}}

\* The record of a query call and its answer.
QueryRecord(user, statusfilter, order_field, window_start, window_size, answer) ==
    [op |-> "query", user |-> user, statusfilter |-> statusfilter,
     order_field |-> order_field, window_start |-> window_start,
     window_size |-> window_size, answer |-> answer]

\* POST /object_set/{project_id}/query
QueryCall ==
    /\ ~scan.on /\ lastQuery = NoQuery
    /\ \E user \in QUsers, statusfilter \in StatusFilters, order_field \in CallOrderFields,
          window \in {<<NoWindow, NoWindow>>, <<1, 2>>} :
         \E answer \in query(user, [statusfilter |-> statusfilter], order_field,
                             window[1], window[2]) :
            lastQuery' = QueryRecord(user, statusfilter, order_field,
                                     window[1], window[2], answer)
    /\ UNCHANGED <<qdb, prjVisible, scan, outQuery>>

\* POST /object_set/{project_id}/summary
SummaryCall ==
    /\ ~scan.on /\ lastQuery = NoQuery
    /\ \E user \in QUsers, statusfilter \in StatusFilters, only_total \in BOOLEAN :
         lastQuery' = [NoQuery EXCEPT !.op = "summary", !.user = user,
                                      !.statusfilter = statusfilter,
                                      !.answer = summary(user, [statusfilter |-> statusfilter],
                                                         only_total)]
    /\ UNCHANGED <<qdb, prjVisible, scan, outQuery>>

\* A logged user asks for the whole list, to read it again by windows.
StartScan ==
    /\ ~scan.on /\ lastQuery = NoQuery
    /\ \E statusfilter \in {"", "NV"}, order_field \in ScanOrderFields, size \in 1..2 :
         \E answer \in query(1, [statusfilter |-> statusfilter], order_field,
                             NoWindow, NoWindow) :
            /\ scan' = [on |-> TRUE, statusfilter |-> statusfilter,
                        order_field |-> order_field, size |-> size,
                        full |-> answer.ids, got |-> <<>>, done |-> FALSE]
            /\ lastQuery' = QueryRecord(1, statusfilter, order_field, NoWindow, NoWindow, answer)
    /\ UNCHANGED <<qdb, prjVisible, outQuery>>

\* The next window of the same query: window_start is the number of rows
\* already read.  A window shorter than asked is the last one.
NextPage ==
    /\ scan.on /\ ~scan.done
    /\ \E answer \in query(1, [statusfilter |-> scan.statusfilter], scan.order_field,
                           Len(scan.got), scan.size) :
         /\ scan' = [scan EXCEPT !.got = @ \o answer.ids,
                                 !.done = Len(answer.ids) < scan.size]
         /\ lastQuery' = QueryRecord(1, scan.statusfilter, scan.order_field,
                                     Len(scan.got), scan.size, answer)
    /\ UNCHANGED <<qdb, prjVisible, outQuery>>

EndScan ==
    /\ scan.on /\ scan.done
    /\ scan' = NoScan
    /\ lastQuery' = NoQuery
    /\ UNCHANGED <<qdb, prjVisible, outQuery>>

\* The answer of a single call is delivered; the next request may come.
QueryReturn ==
    /\ ~scan.on /\ lastQuery # NoQuery
    /\ lastQuery' = NoQuery
    /\ UNCHANGED <<qdb, prjVisible, scan, outQuery>>

QueryInit ==
    /\ qdb \in [QObjs -> [classif_qual : {VALIDATED_CLASSIF_QUAL, PREDICTED_CLASSIF_QUAL},
                          val : QVals]]
    /\ prjVisible \in BOOLEAN
    /\ lastQuery = NoQuery
    /\ scan = NoScan
    /\ StatsIdle /\ ConcIdle /\ DelIdle /\ JobsIdle /\ NightIdle /\ ProjectIdle /\ LaterIdle

QueryNext == QueryCall \/ SummaryCall \/ QueryReturn \/ StartScan \/ NextPage \/ EndScan

SpecQuery == QueryInit /\ [][QueryNext]_vars

IsValidated(x) == qdb[x].classif_qual = VALIDATED_CLASSIF_QUAL

\* C4: a query or summary call without user id fails, with no object data,
\* when the project is not readable anonymously; otherwise it lists only
\* objects whose qualifier is 'V' and its counts are those of the 'V' objects
\* alone, whatever statusfilter the caller gave.
C4_AnonymousValidatedOnly ==
    (lastQuery.op # "none" /\ lastQuery.user = ANONYMOUS) =>
        IF ~prjVisible
        THEN lastQuery.answer = [NoAnswer EXCEPT !.outcome = "denied"]
        ELSE LET a == lastQuery.answer
                 nb_v == Cardinality({x \in QObjs : IsValidated(x)})
             IN a.outcome = "ok" =>
                  /\ \A i \in DOMAIN a.ids : IsValidated(a.ids[i])
                  /\ a.total = nb_v
                  /\ a.nbr_v \in {NULL, nb_v}
                  /\ a.nbr_d = 0 /\ a.nbr_p = 0

\* C4 witness: an anonymous query asking for predicted objects on a readable
\* project that holds predicted and validated objects, answered with rows.
C4_Witness ==
    /\ lastQuery.op = "query" /\ lastQuery.user = ANONYMOUS
    /\ lastQuery.statusfilter = PREDICTED_CLASSIF_QUAL
    /\ prjVisible
    /\ \E x \in QObjs : ~IsValidated(x)
    /\ lastQuery.answer.outcome = "ok"
    /\ lastQuery.answer.ids # <<>>

IsPrefix(s, t) == Len(s) <= Len(t) /\ SubSeq(t, 1, Len(s)) = s

NoRepeat(s) == \A i, j \in DOMAIN s : i # j => s[i] # s[j]

Range(s) == {s[i] : i \in DOMAIN s}

\* C5: for every order field of ScanOrderFields, the clause ends with the
\* unique key of the object (obf.objfid after a free column, else obh.objid);
\* the windows read one after the other never repeat an id, follow the order
\* of the unwindowed list, and once the last window is read they list every
\* matching object exactly once.
C5_WindowsPartition ==
    scan.on =>
        LET clause == cook_order_clause(scan.order_field)
            last == clause[Len(clause)]
        IN /\ <<last.alias, last.col>> =
                IF clause[1].alias = "obf" THEN <<"obf", "objfid">> ELSE <<"obh", "objid">>
           /\ NoRepeat(scan.full)
           /\ Range(scan.full) = Matching([statusfilter |-> scan.statusfilter])
           /\ IsPrefix(scan.got, scan.full)
           /\ scan.done => scan.got = scan.full

\* C5 witness: a list ordered on a column with a NULL and a repeated value
\* has been read to its end in more than one window.
C5_Witness ==
    /\ scan.on /\ scan.done /\ scan.size = 1
    /\ scan.order_field = OrderField(TRUE, "fre", "area")
    /\ Len(scan.full) = MaxQObj
    /\ \E x, y, z \in QObjs : /\ x # y /\ qdb[x].val = qdb[y].val /\ qdb[x].val # NULL
                             /\ qdb[z].val = NULL

\* The listing of a scan ordered on a column whose name contains "_when".
WhenListing == scan.on /\ HasWhen(scan.order_field.name)

\* In the listing every row with a NULL value comes before every row with a
\* value / after every row with a value.
NullRowsFirst(rows) ==
    \A i, j \in DOMAIN rows :
        (qdb[rows[i]].val = NULL /\ qdb[rows[j]].val # NULL) => i < j

NullRowsLast(rows) ==
    \A i, j \in DOMAIN rows :
        (qdb[rows[i]].val = NULL /\ qdb[rows[j]].val # NULL) => j < i

\* C26: for an order field whose column name contains '_when', the ordering
\* of cook_order_clause places every object with a NULL value before every
\* object with a non-NULL value, in ascending and in descending order.
C26_NullDatesFirstBothWays == WhenListing => NullRowsFirst(scan.full)

\* What the code does: NULLS FIRST in ascending order, NULLS LAST in
\* descending order.
C26_NullDatesFirstAscLastDesc ==
    WhenListing => IF scan.order_field.minus THEN NullRowsLast(scan.full)
                   ELSE NullRowsFirst(scan.full)

C26_DescendingNullsLast ==
    /\ WhenListing /\ scan.order_field.minus
    /\ Len(scan.full) = 3
    /\ qdb[scan.full[1]].val # NULL
    /\ qdb[scan.full[3]].val = NULL

(***************************************************************************)
(* SpecJobs: the life of jobs under the scheduler, with a question asked   *)
(* by the job and the reply posted through POST /jobs/{job_id}/answer.     *)
(***************************************************************************)
\* The progress percentage goes by steps up to MaxPct.
MaxPct == 2
\* The scheduler polls counted while a job is asking.
MaxPolls == 2

JobIds == {1, 2}

\* Job states: Pending, Running, Asking, Finished, Error.
JOB_PENDING == "P"
JOB_RUNNING == "R"
JOB_ASKING == "A"
JOB_FINISHED == "F"
JOB_ERROR == "E"

NoReply == "none"
\* The replies the endpoint stores: consistent or not for the job.
Replies == {"valid", "invalid"}

\* JobServiceBase: the Job row created in the HTTP request.
NewJob == [state |-> JOB_PENDING, progress_pct |-> 0, question |-> FALSE,
           reply |-> NoReply, answered |-> FALSE, polls |-> 0]

\* The scheduler takes a job whatever its state but a terminal one.
Runnable_AskingToo(j) == jobs[j].state \in {JOB_PENDING, JOB_ASKING}

\* JobScheduler: the jobs a poll may start.
Runnable(j) == jobs[j].state = JOB_PENDING

\* JobScheduler poll: no runner alive, a runnable job is started.
SchedulerRun(j) ==
    /\ runner = 0
    /\ Runnable(j)
    /\ jobs' = [jobs EXCEPT ![j].state = JOB_RUNNING]
    /\ runner' = j
    /\ UNCHANGED outJobs

\* JobScheduler poll that finds nothing to start while a job is asking.
SchedulerIdle ==
    /\ \A j \in JobIds : runner # 0 \/ ~Runnable(j)
    /\ \E j \in JobIds : jobs[j].state = JOB_ASKING /\ jobs[j].polls < MaxPolls
    /\ jobs' = [j \in JobIds |->
                  IF jobs[j].state = JOB_ASKING /\ jobs[j].polls < MaxPolls
                  THEN [jobs[j] EXCEPT !.polls = @ + 1] ELSE jobs[j]]
    /\ UNCHANGED <<runner, outJobs>>

\* update_progress in the running job.
JobProgress(j) ==
    /\ runner = j /\ jobs[j].state = JOB_RUNNING
    /\ ~jobs[j].question
    /\ jobs[j].progress_pct < MaxPct
    /\ jobs' = [jobs EXCEPT ![j].progress_pct = @ + 1]
    /\ UNCHANGED <<runner, outJobs>>

\* The job sets its question, goes to Asking and its run ends.
JobAsk(j) ==
    /\ runner = j /\ jobs[j].state = JOB_RUNNING
    /\ ~jobs[j].question /\ ~jobs[j].answered
    /\ jobs' = [jobs EXCEPT ![j].state = JOB_ASKING, ![j].question = TRUE,
                            ![j].reply = NoReply, ![j].polls = 0]
    /\ runner' = 0
    /\ UNCHANGED outJobs

\* The resumed job reads the reply: a consistent one lets it go on, another
\* one sends it back to Asking.
JobReadReply(j) ==
    /\ runner = j /\ jobs[j].state = JOB_RUNNING
    /\ jobs[j].question
    /\ IF jobs[j].reply = "valid"
       THEN /\ jobs' = [jobs EXCEPT ![j].question = FALSE, ![j].answered = TRUE]
            /\ UNCHANGED runner
       ELSE /\ jobs' = [jobs EXCEPT ![j].state = JOB_ASKING, ![j].reply = NoReply,
                                    ![j].polls = 0]
            /\ runner' = 0
    /\ UNCHANGED outJobs

\* set_job_result without / with errors: the run ends.
JobEnd(j) ==
    /\ runner = j /\ jobs[j].state = JOB_RUNNING
    /\ ~jobs[j].question
    /\ \E end \in {JOB_FINISHED, JOB_ERROR} :
         jobs' = [jobs EXCEPT ![j].state = end]
    /\ runner' = 0
    /\ UNCHANGED outJobs

\* reply_job_question -> JobCRUDService.reply: the reply is stored and the
\* job is runnable again; a job that is not asking takes no reply.
reply_job_question(j) ==
    /\ jobs[j].state = JOB_ASKING
    /\ \E reply \in Replies :
         jobs' = [jobs EXCEPT ![j].reply = reply, ![j].state = JOB_PENDING]
    /\ UNCHANGED <<runner, outJobs>>

JobsInit ==
    /\ jobs = [j \in JobIds |-> NewJob]
    /\ runner = 0
    /\ StatsIdle /\ ConcIdle /\ DelIdle /\ QueryIdle /\ NightIdle /\ ProjectIdle /\ LaterIdle

JobsNext ==
    \/ \E j \in JobIds : SchedulerRun(j)
    \/ SchedulerIdle
    \/ \E j \in JobIds : JobProgress(j)
    \/ \E j \in JobIds : JobAsk(j)
    \/ \E j \in JobIds : JobReadReply(j)
    \/ \E j \in JobIds : JobEnd(j)
    \/ \E j \in JobIds : reply_job_question(j)

\* The run of a job, once started, goes on by itself.
JobRun(j) == JobProgress(j) \/ JobAsk(j) \/ JobReadReply(j) \/ JobEnd(j)

\* The scheduler polls for ever and starts a pending job when no runner is
\* alive; a started thread runs on.
SpecJobs ==
    /\ JobsInit /\ [][JobsNext]_vars
    /\ \A j \in JobIds : SF_vars(SchedulerRun(j)) /\ WF_vars(JobRun(j))

\* C6: while a job is Asking and no reply is posted to it, no step (a poll
\* included) changes its state or its progress percentage; a job made
\* pending by a valid reply eventually is Finished or in Error.
C6_AskingWaitsForReply ==
    /\ [][\A j \in JobIds :
            (jobs[j].state = JOB_ASKING /\ jobs'[j].reply = jobs[j].reply)
               => /\ jobs'[j].state = JOB_ASKING
                  /\ jobs'[j].progress_pct = jobs[j].progress_pct]_vars
    /\ \A j \in JobIds :
          (jobs[j].state = JOB_PENDING /\ jobs[j].reply = "valid")
             ~> (jobs[j].state \in {JOB_FINISHED, JOB_ERROR})

\* C6 witness: a job that asked, saw MaxPolls polls pass without a reply, then
\* got a valid reply, has finished.
C6_Witness ==
    \E j \in JobIds : /\ jobs[j].state = JOB_FINISHED
                      /\ jobs[j].answered /\ jobs[j].reply = "valid"
                      /\ jobs[j].polls = MaxPolls

(***************************************************************************)
(* SpecNightly: one run of NightlyJobService.do_background on a database   *)
(* holding projects and the rows of past jobs.                             *)
(***************************************************************************)
MaxNProj == 2
MaxNJob == 2
\* NightlyJobService.REPORT_EVERY, scaled down to the size of the model.
ReportEvery == 2

NJobIds == 1..MaxNJob

\* datetime.datetime.today() during the run, in days.
Today == 40
\* The ages, in days, of the job rows when the run takes place.
JobAges == {7, 8, 30, 31}
\* The states of the past jobs: Finished, Error, Asking.
PastJobStates == {"F", "E", "A"}

\* JobBO.PENDING_MESSAGE, JobBO.RESTARTING_MESSAGE and two messages a run
\* writes.
PENDING_MESSAGE == "Pending"
RESTARTING_MESSAGE == "Restarting"
ProgressMessages == {NoMessage, PENDING_MESSAGE, RESTARTING_MESSAGE, "Starting",
                     "Processing project"}

\* A do_background that starts whatever the progress message.
CanStart_Always(progress_msg) == TRUE

\* do_background: if job.progress_msg in (None, PENDING_MESSAGE, RESTARTING_MESSAGE)
CanStart(progress_msg) == progress_msg \in {NoMessage, PENDING_MESSAGE, RESTARTING_MESSAGE}

\* Python round() of num / den: to the nearest integer, the even one of two
\* equally near.
Round(num, den) ==
    LET q == num \div den
        r2 == 2 * (num % den)
    IN IF r2 < den THEN q
       ELSE IF r2 > den THEN q + 1
       ELSE IF q % 2 = 0 THEN q ELSE q + 1

\* clean_old_jobs with the week rule applied to the jobs of every state.
old_jobs_2_AnyState(table, today) ==
    {j \in DOMAIN table : j > 0 /\ table[j].creation_date < today - 7}

\* old_jobs_qry_1: Job.id > 0, creation_date < thirty_days_ago
old_jobs(table, today) == {j \in DOMAIN table : j > 0 /\ table[j].creation_date < today - 30}

\* old_jobs_qry_2: Job.id > 0, creation_date < one_week_ago, state == "F"
old_jobs_2(table, today) ==
    {j \in DOMAIN table : j > 0 /\ table[j].creation_date < today - 7 /\ table[j].state = "F"}

\* to_clean = set(old_jobs).union(set(old_jobs_2))
to_clean(table, today) == old_jobs(table, today) \cup old_jobs_2(table, today)

\* The table without the row of a job.
WithoutJob(table, job_id) == [j \in DOMAIN table \ {job_id} |-> table[j]]

\* The projects in descending id order.
RECURSIVE all_prj_ids_Descending(_)
all_prj_ids_Descending(ids) ==
    IF ids = {} THEN <<>>
    ELSE LET m == CHOOSE x \in ids : \A y \in ids : y <= x
         IN <<m>> \o all_prj_ids_Descending(ids \ {m})

\* all_prj_ids = [proj_id for proj_id, in ...query(Project.projid)]; all_prj_ids.sort()
all_prj_ids(ids) == SortedSeq(ids)

\* The log of the run with one more event.
Logged(event) == nlog' = Append(nlog, event)

\* do_background: the job is read, then do_start or the exception.
do_background ==
    /\ night.pc = "scheduled"
    /\ IF CanStart(night.msg0)
       THEN night' = [night EXCEPT !.pc = "do_start"]
       ELSE night' = [night EXCEPT !.pc = "raised"]
    /\ UNCHANGED <<jobTable, nlog, outNightly>>

\* do_start: update_progress(0, "Starting"); all_prj_ids sorted.
do_start ==
    /\ night.pc = "do_start"
    /\ night' = [night EXCEPT !.pc = "taxo_stats", !.progress_msg = "Starting",
                              !.progress_pct = 0, !.todo = all_prj_ids(night.all_prj_ids),
                              !.chunk = <<>>]
    /\ Logged([what |-> "update_progress", arg |-> 0])
    /\ UNCHANGED <<jobTable, outNightly>>

\* progress_update(start, chunk, total, end) after the project of a pass,
\* when the chunk holds REPORT_EVERY projects.
progress_update(n, start, chunk, total, end) ==
    LET curr == n.curr + Len(chunk)
        progress == Round(start * total + (end - start) * curr, total)
    IN [n EXCEPT !.curr = curr, !.progress_pct = progress,
                 !.progress_msg = "Processing project", !.chunk = <<>>]

\* One turn of the loop of a pass over the projects, from start to end per
\* cent: the statistics of the project, the commit, the report.
PassStep(pass, what, start, end, next_pc) ==
    /\ night.pc = pass
    /\ IF night.todo = <<>>
       THEN /\ night' = [night EXCEPT !.pc = next_pc, !.chunk = <<>>,
                                      !.todo = all_prj_ids(night.all_prj_ids)]
            /\ UNCHANGED nlog
       ELSE LET proj_id == Head(night.todo)
                chunk == Append(night.chunk, proj_id)
                n1 == [night EXCEPT !.todo = Tail(@), !.chunk = chunk]
            IN IF Len(chunk) = ReportEvery
               THEN LET n2 == progress_update(n1, start, chunk,
                                              Cardinality(night.all_prj_ids), end)
                    IN /\ night' = n2
                       /\ nlog' = nlog \o <<[what |-> what, arg |-> proj_id],
                                            [what |-> "commit", arg |-> proj_id],
                                            [what |-> "update_progress", arg |-> n2.progress_pct]>>
               ELSE /\ night' = n1
                    /\ nlog' = nlog \o <<[what |-> what, arg |-> proj_id],
                                         [what |-> "commit", arg |-> proj_id]>>
    /\ UNCHANGED <<jobTable, outNightly>>

\* compute_all_projects_taxo_stats(all_prj_ids, 0, 30)
compute_all_projects_taxo_stats == PassStep("taxo_stats", "update_taxo_stats", 0, 30, "stats")

\* compute_all_projects_stats(all_prj_ids, 30, 60)
compute_all_projects_stats == PassStep("stats", "update_stats", 30, 60, "taxo_tree")

\* refresh_taxo_tree_stats
refresh_taxo_tree_stats ==
    /\ night.pc = "taxo_tree"
    /\ night' = [night EXCEPT !.pc = "clean_old_jobs"]
    /\ Logged([what |-> "compute_stats", arg |-> 0])
    /\ UNCHANGED <<jobTable, outNightly>>

\* clean_old_jobs: the two queries give the jobs to clean.
clean_old_jobs ==
    /\ night.pc = "clean_old_jobs"
    /\ night' = [night EXCEPT !.pc = "cleaning", !.to_clean = to_clean(jobTable, Today)]
    /\ UNCHANGED <<jobTable, nlog, outNightly>>

\* for job_id in to_clean: archive_for, job_bo.archive(), commit
clean_one_job ==
    /\ night.pc = "cleaning"
    /\ IF night.to_clean = {}
       THEN /\ night' = [night EXCEPT !.pc = "set_job_result"]
            /\ UNCHANGED <<jobTable, nlog>>
       ELSE \E job_id \in night.to_clean :
              /\ jobTable' = WithoutJob(jobTable, job_id)
              /\ night' = [night EXCEPT !.to_clean = @ \ {job_id}]
              /\ Logged([what |-> "archive", arg |-> job_id])
    /\ UNCHANGED outNightly

\* set_job_result(errors=[], infos={"status": "ok"})
set_job_result ==
    /\ night.pc = "set_job_result"
    /\ night' = [night EXCEPT !.pc = "done", !.result = "ok"]
    /\ Logged([what |-> "set_job_result", arg |-> 0])
    /\ UNCHANGED <<jobTable, outNightly>>

NightlyInit ==
    /\ \E table \in [NJobIds -> [creation_date : {Today - a : a \in JobAges},
                                state : PastJobStates]],
          progress_msg \in ProgressMessages, nb_prj \in 0..MaxNProj :
         /\ jobTable = table
         /\ night = [NoNight EXCEPT !.pc = "scheduled", !.progress_msg = progress_msg,
                                    !.msg0 = progress_msg,
                                    !.all_prj_ids = 1..nb_prj, !.jobs0 = table]
    /\ nlog = <<>>
    /\ StatsIdle /\ ConcIdle /\ DelIdle /\ QueryIdle /\ JobsIdle /\ ProjectIdle /\ LaterIdle

NightlyNext ==
    \/ do_background \/ do_start
    \/ compute_all_projects_taxo_stats \/ compute_all_projects_stats
    \/ refresh_taxo_tree_stats \/ clean_old_jobs \/ clean_one_job \/ set_job_result

SpecNightly == NightlyInit /\ [][NightlyNext]_vars

\* C7: do_background goes to do_start exactly when the progress message it
\* reads is None, the pending or the restarting message; with any other
\* message it raises, and then no statistics were recomputed, no taxonomy
\* refresh ran, no job was cleaned and no job result was set.
C7_StartOnlyWhenPendingOrRestarting ==
    night.pc \notin {"idle", "scheduled"} =>
        /\ night.pc # "raised" <=>
              night.msg0 \in {NoMessage, PENDING_MESSAGE, RESTARTING_MESSAGE}
        /\ night.pc = "raised" =>
              /\ nlog = <<>>
              /\ jobTable = night.jobs0
              /\ night.result = "none"
              /\ night.progress_msg = night.msg0

\* C7 witness: do_background has raised on a job whose progress message was
\* left by an earlier run, with old jobs waiting to be cleaned.
C7_Witness ==
    /\ night.pc = "raised"
    /\ night.msg0 = "Processing project"
    /\ to_clean(jobTable, Today) # {}
    /\ night.all_prj_ids # {}

\* The age of a job of the table at the time of the run, in days.
AgeOf(table, j) == Today - table[j].creation_date

\* The jobs the rules of the cleanup name: older than 30 days, or older than 7
\* days and in state 'F'.
MustGo(table) ==
    {j \in DOMAIN table : \/ AgeOf(table, j) > 30
                          \/ AgeOf(table, j) > 7 /\ table[j].state = "F"}

\* C8: when the cleanup of a run has ended, the jobs gone from the table are
\* exactly those older than 30 days and those older than 7 days in state 'F';
\* every other job is there, unchanged.
C8_CleansExactlyOldJobs ==
    night.pc \in {"set_job_result", "done"} =>
        /\ DOMAIN jobTable = DOMAIN night.jobs0 \ MustGo(night.jobs0)
        /\ \A j \in DOMAIN jobTable : jobTable[j] = night.jobs0[j]

\* C8 witness: a run has cleaned a job of 8 days in state 'F' and kept a job
\* of 8 days in another state.
C8_Witness ==
    /\ night.pc = "done"
    /\ \E j \in DOMAIN night.jobs0 \ DOMAIN jobTable :
          AgeOf(night.jobs0, j) = 8 /\ night.jobs0[j].state = "F"
    /\ \E j \in DOMAIN jobTable :
          AgeOf(jobTable, j) = 8 /\ jobTable[j].state # "F"

\* The positions of the log holding an event of one kind.
LogIdx(what) == {i \in DOMAIN nlog : nlog[i].what = what}

\* The statistics of a project and their commit are in the log before position i.
DoneBefore(what, proj_id, i) ==
    \E k \in LogIdx(what) :
        /\ nlog[k].arg = proj_id
        /\ k + 1 < i /\ nlog[k + 1] = [what |-> "commit", arg |-> proj_id]

\* The events of one kind are in ascending order of project id.
Ascending(what) ==
    \A i, j \in LogIdx(what) : i < j => nlog[i].arg < nlog[j].arg

\* C22: in a nightly run, update_stats of any project starts only after
\* update_taxo_stats has run and been committed for every project; both
\* passes visit the projects in ascending id order; the taxonomy-tree refresh
\* starts only after both passes, the cleanup of old jobs only after the
\* refresh, and the job result is set only after the cleanup has finished.
C22_NightlyStepsInOrder ==
    /\ \A i \in LogIdx("update_stats") :
          \A p \in night.all_prj_ids : DoneBefore("update_taxo_stats", p, i)
    /\ Ascending("update_taxo_stats") /\ Ascending("update_stats")
    /\ \A i \in LogIdx("compute_stats") :
          \A p \in night.all_prj_ids :
              DoneBefore("update_taxo_stats", p, i) /\ DoneBefore("update_stats", p, i)
    /\ \A i \in LogIdx("archive") : \E k \in LogIdx("compute_stats") : k < i
    /\ night.pc \in {"clean_old_jobs", "cleaning"} => LogIdx("compute_stats") # {}
    /\ \A i \in LogIdx("set_job_result") :
          /\ \E k \in LogIdx("compute_stats") : k < i
          /\ \A k \in LogIdx("archive") : k < i
          /\ to_clean(jobTable, Today) = {}

\* C22 witness: a run over two projects that cleaned a job has set its result.
C22_Witness ==
    /\ night.pc = "done"
    /\ Cardinality(night.all_prj_ids) = 2
    /\ LogIdx("archive") # {}
    /\ LogIdx("set_job_result") # {}

\* The positions of the progress updates that a pass issues: each follows
\* the statistics of a project of the pass and their commit.
ReportsOf(what) ==
    {i \in LogIdx("update_progress") : i > 2 /\ nlog[i - 2].what = what}

\* The percentages of the log never decrease.
NeverDecreasing ==
    \A i, j \in LogIdx("update_progress") : i < j => nlog[i].arg <= nlog[j].arg

\* C30: every progress update of a nightly run reports a percentage inside
\* the range of the pass that issues it, 0 to 30 for
\* compute_all_projects_taxo_stats and 30 to 60 for
\* compute_all_projects_stats, and the percentages reported during one run
\* never decrease, for every number of projects.
C30_ProgressInRangeOfPass ==
    /\ \A i \in ReportsOf("update_taxo_stats") : nlog[i].arg \in 0..30
    /\ \A i \in ReportsOf("update_stats") : nlog[i].arg \in 30..60
    /\ NeverDecreasing

\* What the code ensures: the first pass reports between 0 and 30, the
\* second pass from 60 on, its count of projects carrying on from the first
\* pass, up to 90; the percentages never decrease.
C30_SecondPassCarriesOn ==
    /\ \A i \in ReportsOf("update_taxo_stats") : nlog[i].arg \in 0..30
    /\ \A i \in ReportsOf("update_stats") : nlog[i].arg \in 60..90
    /\ NeverDecreasing

C30_SecondPassAboveItsRange ==
    /\ night.pc = "done"
    /\ \E i \in ReportsOf("update_stats") : nlog[i].arg > 60

(***************************************************************************)
(* SpecProject: ProjectBO.update called through a Service, with the        *)
(* session of the call beside the committed rows.                          *)
(***************************************************************************)
PUsers == {1, 2}
\* contact is None
NoContact == 0

MANAGE == "Manage"
ANNOTATE == "Annotate"
VIEW == "View"

\* The member lists of the calls; a user may come twice in a list and in
\* several lists.
ManagerLists == {<<>>, <<1>>, <<2>>, <<1, 2>>, <<1, 1>>}
AnnotatorLists == {<<>>, <<1>>, <<2>>}
ViewerLists == {<<>>, <<2>>}

\* The CNN networks and the texts of the one project variable of the model:
\* blank, a formula that parses, a formula that does not.
Networks == {"cnn1", "cnn2"}
Formulas == {"", "ok", "bad"}

\* for a_var, its_def in bodc_vars.items(): the formula errors found.
FormulaErrors(its_def) == IF its_def = "" THEN 0 ELSE IF its_def = "bad" THEN 1 ELSE 0

\* The rows session.add() queues for one list.
RowsOf(a_right, a_user_list, contact, flag_right) ==
    [i \in DOMAIN a_user_list |->
        [member |-> a_user_list[i], privilege |-> a_right,
         extra |-> IF a_user_list[i] = contact /\ flag_right THEN "C" ELSE "-"]]

\* The loop that adds the rows, flagging the contact in every list.
AddAll_FlagAnyRight(contact, managers, annotators, viewers) ==
    RowsOf(MANAGE, managers, contact, TRUE)
    \o RowsOf(ANNOTATE, annotators, contact, TRUE)
    \o RowsOf(VIEW, viewers, contact, TRUE)

\* for a_right, a_user_list in by_right.items(): ... session.add(ProjectPrivilege(...))
AddAll(contact, managers, annotators, viewers) ==
    RowsOf(MANAGE, managers, contact, TRUE)
    \o RowsOf(ANNOTATE, annotators, contact, FALSE)
    \o RowsOf(VIEW, viewers, contact, FALSE)

\* contact_used after the loop
ContactUsed(rows) == \E i \in DOMAIN rows : rows[i].extra = "C"

\* The unique key of projectspriv for a row: the member alone, or the member
\* and the privilege.
KeyOf(row, key) == IF key = "member" THEN <<row.member>> ELSE <<row.member, row.privilege>>

\* The flush of the queued rows meets no duplicate key.
FlushOk(rows, key) == \A i, j \in DOMAIN rows : i # j => KeyOf(rows[i], key) # KeyOf(rows[j], key)

\* A close that commits what the session holds.
close_db_sessions_Commit(committed, session) == session

\* Service.close_db_sessions: session.close() gives up what was not committed.
close_db_sessions(committed, session) == committed

\* ProjectBO.update, entry: the assertions and the validation of variables.
UpdateCall ==
    /\ updCall.pc = "idle"
    /\ \E contact \in PUsers \cup {NoContact}, instrument \in {"None", "uvp5"},
          cnn_network_id \in Networks, its_def \in Formulas,
          managers \in ManagerLists, annotators \in AnnotatorLists, viewers \in ViewerLists :
         IF contact = NoContact \/ instrument = "None" \/ FormulaErrors(its_def) # 0
         THEN updCall' = [NoUpdate EXCEPT !.pc = "failed", !.outcome = "failed",
                                      !.why = IF contact = NoContact THEN "contact"
                                              ELSE IF instrument = "None" THEN "instrument"
                                              ELSE "formula",
                                      !.before = project, !.session = project]
         ELSE updCall' = [NoUpdate EXCEPT !.pc = "fields", !.outcome = "running",
                                      !.contact = contact, !.cnn_network_id = cnn_network_id,
                                      !.its_def = its_def,
                                      !.rows = AddAll(contact, managers, annotators, viewers),
                                      !.before = project, !.session = project]
    /\ UNCHANGED <<project, privKey, outProject>>

\* Field reflexes and fields update: the CNN features go when the network
\* changes; then all the privileges of the project are deleted.
UpdateFields ==
    /\ updCall.pc = "fields"
    /\ LET s0 == updCall.session
           purged == [s0 EXCEPT !.features = IF updCall.cnn_network_id # s0.cnn_network_id
                                             THEN FALSE ELSE @]
       IN updCall' = [updCall EXCEPT !.pc = "add_all",
                                     !.session = [purged EXCEPT
                                                     !.cnn_network_id = updCall.cnn_network_id,
                                                     !.privs = <<>>]]
    /\ UNCHANGED <<project, privKey, outProject>>

\* Add all, then the sanity check on contact_used.
UpdateAddAll ==
    /\ updCall.pc = "add_all"
    /\ IF ContactUsed(updCall.rows)
       THEN updCall' = [updCall EXCEPT !.pc = "variables",
                               !.session = [@ EXCEPT !.privs = updCall.rows,
                                                     !.contact = updCall.contact]]
       ELSE updCall' = [updCall EXCEPT !.pc = "failed", !.outcome = "failed", !.why = "not_manager",
                               !.session = [@ EXCEPT !.privs = updCall.rows]]
    /\ UNCHANGED <<project, privKey, outProject>>

\* Variables update, in full.
UpdateVariables ==
    /\ updCall.pc = "variables"
    /\ updCall' = [updCall EXCEPT !.pc = "commit", !.session = [@ EXCEPT !.variables = updCall.its_def]]
    /\ UNCHANGED <<project, privKey, outProject>>

\* session.commit(): the flush fails on a duplicate key, else all is stored.
UpdateCommit ==
    /\ updCall.pc = "commit"
    /\ IF FlushOk(updCall.session.privs, privKey)
       THEN /\ project' = updCall.session
            /\ updCall' = [updCall EXCEPT !.pc = "done", !.outcome = "updated"]
       ELSE /\ updCall' = [updCall EXCEPT !.pc = "failed", !.outcome = "failed", !.why = "duplicate"]
            /\ UNCHANGED project
    /\ UNCHANGED <<privKey, outProject>>

\* Service.__exit__ after the return or the exception.
UpdateExit ==
    /\ updCall.pc \in {"done", "failed"}
    /\ project' = close_db_sessions(project, updCall.session)
    /\ updCall' = [updCall EXCEPT !.pc = "exited"]
    /\ UNCHANGED <<privKey, outProject>>

\* The answer is sent; the next request may come.
UpdateReturn ==
    /\ updCall.pc = "exited"
    /\ updCall' = NoUpdate
    /\ UNCHANGED <<project, privKey, outProject>>

ProjectInit ==
    /\ project = [cnn_network_id |-> "cnn1", features |-> TRUE, variables |-> "", contact |-> 1,
              privs |-> <<[member |-> 1, privilege |-> MANAGE, extra |-> "C"]>>]
    /\ privKey \in {"member", "member_privilege"}
    /\ updCall = NoUpdate
    /\ StatsIdle /\ ConcIdle /\ DelIdle /\ QueryIdle /\ JobsIdle /\ NightIdle /\ LaterIdle

ProjectNext ==
    \/ UpdateCall \/ UpdateFields \/ UpdateAddAll \/ UpdateVariables
    \/ UpdateCommit \/ UpdateExit \/ UpdateReturn

SpecProject == ProjectInit /\ [][ProjectNext]_vars

\* The committed privilege rows that carry the contact flag.
ContactRows == {i \in DOMAIN project.privs : project.privs[i].extra = "C"}

\* C9: in the committed rows of the project exactly one privilege row carries
\* 'C'; it is a Manage row and its member is the contact of the last update
\* that succeeded, whatever lists the updates were given.
C9_OneContactManager ==
    /\ Cardinality(ContactRows) = 1
    /\ \A i \in ContactRows : /\ project.privs[i].privilege = MANAGE
                              /\ project.privs[i].member = project.contact

\* C9 witness: an update has succeeded that named the contact both as manager
\* and as annotator, and made user 2 the contact.
C9_Witness ==
    /\ updCall.outcome = "updated"
    /\ project.contact = 2
    /\ \E i, j \in DOMAIN project.privs :
          /\ project.privs[i].member = 2 /\ project.privs[i].privilege = MANAGE
          /\ project.privs[j].member = 2 /\ project.privs[j].privilege = ANNOTATE

\* C10: after an update that failed, the committed fields, privilege rows,
\* variables and CNN features of the project are those of before the call.
C10_FailedUpdateCommitsNothing ==
    updCall.outcome = "failed" => project = updCall.before

\* C10 witness: an update failed on a contact missing from the managers,
\* after its session had purged the CNN features and replaced the rows, and
\* the Service has been left.
C10_Witness ==
    /\ updCall.pc = "exited" /\ updCall.outcome = "failed" /\ updCall.why = "not_manager"
    /\ updCall.session.features # project.features
    /\ updCall.session.privs # project.privs

(***************************************************************************)
(* SpecUsers: the status of a user, set by an administrator, and the       *)
(* update of the user's own profile with a bearer token.                   *)
(***************************************************************************)
\* DB.User.UserStatus
blocked == -1
inactive == 0
active == 1
pending == 2
UserStatus == {blocked, inactive, active, pending}

\* The ordinary user of the calls, and another user owning another email.
ORDINARY_USER == 1
OTHER_USER == 2
UserIds == {ORDINARY_USER, OTHER_USER}
Emails == {"a", "b", "c"}

HTTP_200 == 200
HTTP_403 == 403
HTTP_422 == 422

\* No other user has this email (users.email is unique).
EmailFree(u, email) == \A o \in UserIds \ {u} : users[o].email # email

\* A gate reading the status the token was issued under: always active.
MayUpdate_AtLogin(status) == {TRUE}

\* The gate of the self-service update, on the user's present status: the
\* outcomes it may have.  A blocked user is refused and an active one is
\* let in; nothing is stated for an inactive or a pending user.
MayUpdate(status) ==
    IF status = blocked THEN {FALSE}
    ELSE IF status = active THEN {TRUE}
    ELSE BOOLEAN

\* POST /login: a token is issued to an active user.
login ==
    /\ users[ORDINARY_USER].status = active
    /\ token' = [issued |-> TRUE, refused |-> FALSE]
    /\ UNCHANGED <<users, verification, updUser>>
    /\ UNCHANGED outUsers

\* POST /users/activate/{user_id}/{status} by a users administrator.
activate_user(u, status) ==
    /\ users[u].status # status
    /\ users' = [users EXCEPT ![u].status = status]
    /\ UNCHANGED <<verification, token, updUser>>
    /\ UNCHANGED outUsers

\* The row after an accepted update: a changed email has to be verified
\* again when verification is on, and the account is inactive until then.
UpdatedRow(row, email) ==
    [row EXCEPT !.email = email,
                !.status = IF verification /\ email # row.email THEN inactive ELSE @]

\* PUT /users/{user_id} by the user, with the token of the session.
update_user(email, let_in) ==
    LET u == ORDINARY_USER
        obs == [NoUserUpdate EXCEPT !.status = users[u].status, !.email = email,
                                    !.free = EmailFree(u, email),
                                    !.refused_before = token.refused,
                                    !.before = users]
    IN /\ token.issued
       /\ let_in \in MayUpdate(users[u].status)
       /\ IF ~let_in
          THEN /\ updUser' = [obs EXCEPT !.code = HTTP_403, !.after = users]
               /\ token' = [token EXCEPT !.refused = TRUE]
               /\ UNCHANGED users
          ELSE IF ~EmailFree(u, email)
          THEN /\ updUser' = [obs EXCEPT !.code = HTTP_422, !.after = users]
               /\ UNCHANGED <<users, token>>
          ELSE /\ users' = [users EXCEPT ![u] = UpdatedRow(@, email)]
               /\ updUser' = [obs EXCEPT !.code = HTTP_200, !.after = users']
               /\ UNCHANGED token
       /\ UNCHANGED verification
       /\ UNCHANGED outUsers

UsersInit ==
    /\ users = [u \in UserIds |->
                  [status |-> active, email |-> IF u = ORDINARY_USER THEN "a" ELSE "b"]]
    /\ verification \in BOOLEAN
    /\ token = NoSession
    /\ updUser = NoUserUpdate
    /\ FirstIdle /\ PasswordIdle /\ MruIdle /\ PurgeIdle /\ CollectionIdle /\ PrefsIdle /\ TaxoQueryIdle /\ LineageIdle /\ FieldsIdle /\ MailIdle /\ ServiceIdle /\ MigrationIdle

UsersNext ==
    \/ login
    \/ \E u \in UserIds, status \in UserStatus : activate_user(u, status)
    \/ \E email \in Emails, let_in \in BOOLEAN : update_user(email, let_in)

SpecUsers == UsersInit /\ [][UsersNext]_vars

\* C11: while the user is blocked, an update of the own profile with the
\* token token is refused with 403 and changes no row; while the user is
\* active, the same update (an email no other user has) is accepted with
\* the same token, whatever was refused before.
C11_BlockedRefusedActiveAccepted ==
    updUser.code # 0 =>
        /\ updUser.status = blocked =>
              updUser.code = HTTP_403 /\ updUser.after = updUser.before
        /\ (updUser.status = active /\ updUser.free) =>
              /\ updUser.code = HTTP_200
              /\ updUser.after[ORDINARY_USER].email = updUser.email

\* C11 witness: the token that was refused while the user was blocked is
\* accepted after the administrator made the user active again.
C11_Witness ==
    /\ updUser.code = HTTP_200
    /\ updUser.refused_before
    /\ updUser.status = active
    /\ updUser.after[ORDINARY_USER].email # updUser.before[ORDINARY_USER].email

(***************************************************************************)
(* SpecPassword: UserBO.is_strong_password, the match of USER_PWD_REGEXP   *)
(*   ^(?:(?=.*[a-z])(?=.*[A-Z])(?=.*[0-9])(?=.*[!@#?%^&*-+])).{8,20}$      *)
(* on a password, a sequence of characters.                                *)
(***************************************************************************)
\* The line feed, which '.' does not match.
LF == "\n"

\* [a-z], [A-Z] and [0-9]
LowerCase == {"a", "z"}
UpperCase == {"A", "Z"}
Digits == {"0", "9"}
\* [!@#?%^&*-+]: the characters ! @ # ? % ^ & and the range from * to +,
\* which holds * and + and no hyphen.
RegexpSpecials == {"!", "@", "#", "?", "%", "^", "&", "*", "+"}
\* USER_PWD_REGEXP_DESCRIPTION: "one special char in '#?!@%^&*-'"
DescribedSpecials == {"#", "?", "!", "@", "%", "^", "&", "*", "-"}

\* Bounds of .{8,20}
MinPwdLen == 8
MaxPwdLen == 20

\* (?=.*[class]) at position 0: a character of the class that only
\* characters matched by '.' precede.
LookAhead(password, class) ==
    \E i \in 1..Len(password) :
        /\ password[i] \in class
        /\ \A j \in 1..(i - 1) : password[j] # LF

\* .{8,20}$ from position 0: 8 to 20 characters matched by '.', up to the
\* end of the string or to a line feed that ends the string.
DotsToEnd(password) ==
    LET n == Len(password)
    IN \/ /\ \A j \in 1..n : password[j] # LF
          /\ MinPwdLen <= n /\ n <= MaxPwdLen
       \/ /\ n >= 1 /\ password[n] = LF
          /\ \A j \in 1..(n - 1) : password[j] # LF
          /\ MinPwdLen <= n - 1 /\ n - 1 <= MaxPwdLen

\* bool(re.match(USER_PWD_REGEXP, password))
is_strong_password(password) ==
    /\ LookAhead(password, LowerCase)
    /\ LookAhead(password, UpperCase)
    /\ LookAhead(password, Digits)
    /\ LookAhead(password, RegexpSpecials)
    /\ DotsToEnd(password)

\* The passwords of the model: a core of up to MaxCore characters, then
\* one character repeated.
MaxCore == 3
PwdChars == {"a", "A", "9", "#", "-", "+", LF}
PadLengths == {0, 5, 6, 17, 18}

RECURSIVE Repeat(_, _)
Repeat(c, n) == IF n = 0 THEN <<>> ELSE <<c>> \o Repeat(c, n - 1)

Cores == UNION {[1..n -> PwdChars] : n \in 0..MaxCore}

Passwords == {core \o Repeat(c, n) : core \in Cores, c \in PwdChars, n \in PadLengths}

CheckPassword ==
    /\ ~pwd.checked
    /\ pwd' = [pwd EXCEPT !.checked = TRUE, !.strong = is_strong_password(pwd.password)]
    /\ UNCHANGED outPassword

PasswordInit ==
    /\ pwd \in [password : Passwords, checked : {FALSE}, strong : {FALSE}]
    /\ FirstIdle /\ UsersIdle /\ MruIdle /\ PurgeIdle /\ CollectionIdle /\ PrefsIdle /\ TaxoQueryIdle /\ LineageIdle /\ FieldsIdle /\ MailIdle /\ ServiceIdle /\ MigrationIdle

PasswordNext == CheckPassword

SpecPassword == PasswordInit /\ [][PasswordNext]_vars

\* The rule as it is stated: 8 to 20 characters, with a lowercase letter,
\* an uppercase letter, a digit and a character of #?!@%^&*-
StatedStrong(password) ==
    /\ MinPwdLen <= Len(password) /\ Len(password) <= MaxPwdLen
    /\ \E i \in 1..Len(password) : password[i] \in LowerCase
    /\ \E i \in 1..Len(password) : password[i] \in UpperCase
    /\ \E i \in 1..Len(password) : password[i] \in Digits
    /\ \E i \in 1..Len(password) : password[i] \in DescribedSpecials

\* C12: is_strong_password accepts a string exactly when it has 8 to 20
\* characters and holds a lowercase letter, an uppercase letter, a digit
\* and one character of #?!@%^&*- ; every other string is rejected.
C12_StrongIffStatedRule ==
    pwd.checked => (pwd.strong <=> StatedStrong(pwd.password))

\* C12, the part that holds: on passwords without line feed, hyphen or
\* plus sign the function and the stated rule agree.
C12_AgreeOnOtherCharacters ==
    (pwd.checked /\ \A i \in 1..Len(pwd.password) : pwd.password[i] \notin {LF, "-", "+"})
        => (pwd.strong <=> StatedStrong(pwd.password))

\* A password whose only special character is the hyphen has been rejected.
C12_HyphenRejected ==
    /\ pwd.checked /\ ~pwd.strong
    /\ StatedStrong(pwd.password)
    /\ \A i \in 1..Len(pwd.password) : pwd.password[i] # LF

(***************************************************************************)
(* SpecMru: UserBO.merge_mru on a previous list and a list of newly used   *)
(* classification ids.                                                     *)
(***************************************************************************)
NB_MRU_KEPT == 10

\* The ids of a list.
Ids(l) == {l[i] : i \in 1..Len(l)}

\* The last position (from 1) of an id in a list: what a dict comprehension
\* over enumerate(list) keeps for a repeated key.
LastPos(l, id) == CHOOSE i \in 1..Len(l) : l[i] = id /\ \A j \in (i + 1)..Len(l) : l[j] # id

\* {classif_id: pos_in_mru + 1 for pos_in_mru, classif_id in enumerate(before)}
BefTbl(before) == [id \in Ids(before) |-> (LastPos(before, id) - 1) + 1]

\* {classif_id: -pos_hist for pos_hist, classif_id in enumerate(incoming)}
IncTbl(incoming) == [id \in Ids(incoming) |-> 0 - (LastPos(incoming, id) - 1)]

\* bef_tbl.update(inc_tbl)
DictUpdate(d, e) == [k \in DOMAIN d \cup DOMAIN e |-> IF k \in DOMAIN e THEN e[k] ELSE d[k]]

\* sorted(tbl.keys(), key=lambda v: tbl[v]); the values of tbl are distinct.
RECURSIVE SortedKeys(_, _)
SortedKeys(tbl, keys) ==
    IF keys = {} THEN <<>>
    ELSE LET k == CHOOSE x \in keys : \A y \in keys : tbl[x] <= tbl[y]
         IN <<k>> \o SortedKeys(tbl, keys \ {k})

\* l[:n]
Head_n(l, n) == SubSeq(l, 1, IF Len(l) < n THEN Len(l) ELSE n)

merge_mru(before, incoming) ==
    LET tbl == DictUpdate(BefTbl(before), IncTbl(incoming))
    IN Head_n(SortedKeys(tbl, DOMAIN tbl), NB_MRU_KEPT)

\* The lists of the model: the previous list is a run of consecutive ids or
\* a short list that may repeat an id; the incoming list is a short list.
MaxBefore == 12
MaxIncoming == 3
IncomingIds == {1, 2, 12, 13}

Run(a, b) == [i \in 1..(b - a + 1) |-> a + i - 1]

BeforeLists == {Run(a, b) : a \in 1..MaxBefore, b \in 0..MaxBefore}
               \cup UNION {[1..n -> {1, 2}] : n \in 0..2}

IncomingLists == UNION {[1..n -> IncomingIds] : n \in 0..MaxIncoming}

MergeMru ==
    /\ ~mru.done
    /\ mru' = [mru EXCEPT !.done = TRUE, !.ret = merge_mru(mru.before, mru.incoming)]
    /\ UNCHANGED outMru

MruInit ==
    /\ mru \in [before : BeforeLists, incoming : IncomingLists, done : {FALSE}, ret : {<<>>}]
    /\ FirstIdle /\ UsersIdle /\ PasswordIdle /\ PurgeIdle /\ CollectionIdle /\ PrefsIdle /\ TaxoQueryIdle /\ LineageIdle /\ FieldsIdle /\ MailIdle /\ ServiceIdle /\ MigrationIdle

MruNext == MergeMru

SpecMru == MruInit /\ [][MruNext]_vars

\* The elements of l that are not in the set S, in the order of l.
RECURSIVE Without(_, _)
Without(l, S) ==
    IF l = <<>> THEN <<>>
    ELSE IF Head(l) \in S THEN Without(Tail(l), S)
    ELSE <<Head(l)>> \o Without(Tail(l), S)

Reversed(l) == [i \in 1..Len(l) |-> l[Len(l) + 1 - i]]

\* C13: merge_mru(before, incoming) is a duplicate-free list of at most 10
\* ids, equal to the first 10 entries of: incoming in its given order, then
\* the ids of before that are not in incoming, in their previous order.
\* Stated on lists without repeated id, where "the ids of a list in order"
\* has one reading.
C13_IncomingFirstInGivenOrder ==
    (mru.done /\ NoRepeat(mru.before) /\ NoRepeat(mru.incoming)) =>
        /\ NoRepeat(mru.ret)
        /\ Len(mru.ret) <= NB_MRU_KEPT
        /\ mru.ret = Head_n(mru.incoming \o Without(mru.before, Ids(mru.incoming)), NB_MRU_KEPT)

\* C13, what holds: the result is duplicate-free, has at most 10 ids, and
\* is the first 10 entries of incoming in REVERSE order, then the ids of
\* before that are not in incoming, in their previous order.
C13_IncomingFirstReversed ==
    (mru.done /\ NoRepeat(mru.before) /\ NoRepeat(mru.incoming)) =>
        /\ NoRepeat(mru.ret)
        /\ Len(mru.ret) <= NB_MRU_KEPT
        /\ mru.ret = Head_n(Reversed(mru.incoming) \o Without(mru.before, Ids(mru.incoming)),
                            NB_MRU_KEPT)

\* A merge of two or more new ids into a list that the cap cuts.
C13_CutMerge ==
    /\ mru.done /\ NoRepeat(mru.before) /\ NoRepeat(mru.incoming)
    /\ Len(mru.incoming) >= 2
    /\ Len(mru.ret) = NB_MRU_KEPT
    /\ Cardinality(Ids(mru.before) \cup Ids(mru.incoming)) > NB_MRU_KEPT

(***************************************************************************)
(* SpecPurge: ProjectsService.delete of a whole project or of its objects, *)
(* with ProjectBO.delete_object_parents and ProjectBO.delete.              *)
(***************************************************************************)
NOT_FOUND == "Not found"
NOT_AUTHORIZED == "Not authorized"

\* The content of a project without object, parent or privilege.
EmptyContent == [objects |-> {}, parents |-> {}, privs |-> {}, nbr |-> 0]

\* A user_wants that does not look for the project row.
ProjectFound_AnyId(prj_id) == TRUE

\* RightsBO.user_wants: assert project is not None, NOT_FOUND
ProjectFound(prj_id) == prj_id \in prjTable

\* RightsBO.user_wants(session, user, Action.ADMINISTRATE, prj_id) on a found
\* project: an application administrator, or a manager of the project.
MayAdministrate(user, prj_id) == user \in AppAdmins \/ user \in prjContent[prj_id].privs

PurgeSnapshot == [rows |-> prjTable, content |-> prjContent]

\* ProjectsService.delete(current_user_id, prj_id, only_objects): the
\* security barrier.
PurgeCall(user, prj_id, only_objects) ==
    /\ purge.pc = "idle"
    /\ LET call == [NoPurge EXCEPT !.user = user, !.prj_id = prj_id,
                                   !.only_objects = only_objects,
                                   !.was_gone = prj_id \notin prjTable,
                                   !.before = PurgeSnapshot]
       IN purge' = IF ~ProjectFound(prj_id)
                   THEN [call EXCEPT !.pc = "failed", !.why = NOT_FOUND]
                   ELSE IF ~MayAdministrate(user, prj_id)
                   THEN [call EXCEPT !.pc = "failed", !.why = NOT_AUTHORIZED]
                   ELSE [call EXCEPT !.pc = "objects"]
    /\ UNCHANGED <<prjTable, prjContent, outPurge>>

\* obj_set.delete(...) on all the object ids of the project.
PurgeObjects ==
    /\ purge.pc = "objects"
    /\ prjContent' = [prjContent EXCEPT ![purge.prj_id].objects = {}]
    /\ purge' = [purge EXCEPT !.pc = "parents"]
    /\ UNCHANGED <<prjTable, outPurge>>

\* One DELETE statement as the trace of the call keeps it: the table, the
\* rows it deleted, and the rows that referenced them when it ran.
Deleted(tbl, rows, referencing) ==
    [tbl |-> tbl, gone |-> Cardinality(rows), referenced_by |-> Cardinality(referencing)]

RowsOfTable(parents, tbl) == {r \in parents : r.tbl = tbl}

\* ProjectBO.delete_object_parents: the acquisitions of the samples of the
\* project, then its samples; commit.
delete_object_parents ==
    /\ purge.pc = "parents"
    /\ LET content == prjContent[purge.prj_id]
           after_acquis == {r \in content.parents : r.tbl # "acquisitions"}
           after_sample == {r \in after_acquis : r.tbl # "samples"}
       IN /\ prjContent' = [prjContent EXCEPT ![purge.prj_id].parents = after_sample]
          /\ purge' = [purge EXCEPT
                !.pc = IF purge.only_objects THEN "stats" ELSE "project",
                !.trace = @ \o
                   <<Deleted("acquisitions", content.parents \ after_acquis, content.objects),
                     Deleted("samples", after_acquis \ after_sample,
                             RowsOfTable(after_acquis, "acquisitions"))>>]
    /\ UNCHANGED <<prjTable, outPurge>>

\* only_objects: ProjectBO.update_taxo_stats, ProjectBO.update_stats; commit.
PurgeUpdateStats ==
    /\ purge.pc = "stats"
    /\ prjContent' = [prjContent EXCEPT ![purge.prj_id].nbr =
                                        Cardinality(prjContent[purge.prj_id].objects)]
    /\ purge' = [purge EXCEPT !.pc = "returned"]
    /\ UNCHANGED <<prjTable, outPurge>>

\* ProjectBO.delete: the project row, then its privileges; commit.
ProjectBO_delete ==
    /\ purge.pc = "project"
    /\ prjTable' = prjTable \ {purge.prj_id}
    /\ prjContent' = [prjContent EXCEPT ![purge.prj_id].privs = {}, ![purge.prj_id].nbr = 0]
    /\ LET content == prjContent[purge.prj_id]
       IN purge' = [purge EXCEPT
             !.pc = "returned",
             !.trace = @ \o
                <<Deleted("projects", {purge.prj_id},
                          RowsOfTable(content.parents, "samples") \cup content.privs),
                  Deleted("projectspriv", content.privs, {})>>]
    /\ UNCHANGED outPurge

\* The Service is left: the next request may come.
PurgeEnd ==
    /\ purge.pc \in {"failed", "returned"}
    /\ purge' = NoPurge
    /\ UNCHANGED <<prjTable, prjContent, outPurge>>

\* The objects 1..MaxPurgeObj are spread over the projects; project 1 has
\* one sample with its acquisition, and user 1 as manager.
MaxPurgeObj == 3

PurgeInit ==
    /\ prjTable = Projects
    /\ \E owner \in [1..MaxPurgeObj -> Projects], managed \in SUBSET Projects :
         prjContent = [p \in Projects |->
            [objects |-> {x \in 1..MaxPurgeObj : owner[x] = p},
             parents |-> {r \in CleanParents : r.projid = p},
             privs |-> IF p \in managed THEN {1} ELSE {},
             nbr |-> Cardinality({x \in 1..MaxPurgeObj : owner[x] = p})]]
    /\ purge = NoPurge
    /\ FirstIdle /\ UsersIdle /\ PasswordIdle /\ MruIdle /\ CollectionIdle /\ PrefsIdle /\ TaxoQueryIdle /\ LineageIdle /\ FieldsIdle /\ MailIdle /\ ServiceIdle /\ MigrationIdle

PurgeNext ==
    \/ \E user \in Users, prj_id \in Projects, only_objects \in BOOLEAN :
          PurgeCall(user, prj_id, only_objects)
    \/ PurgeObjects
    \/ delete_object_parents
    \/ PurgeUpdateStats
    \/ ProjectBO_delete
    \/ PurgeEnd

SpecPurge == PurgeInit /\ [][PurgeNext]_vars

\* C15: a delete request on the id of a project that has been fully deleted
\* (objects, parents, project row and privileges) fails with "Not found",
\* and no delete request changes the row or the content of another project.
C15_GoneProjectNotFound ==
    purge.pc # "idle" =>
        /\ purge.was_gone =>
              /\ purge.pc = "failed" /\ purge.why = NOT_FOUND
              /\ PurgeSnapshot = purge.before
        /\ \A p \in Projects \ {purge.prj_id} :
              /\ prjContent[p] = purge.before.content[p]
              /\ (p \in prjTable) = (p \in purge.before.rows)

\* A fully deleted project has no row, object, parent or privilege left.
C15_FullyDeleted ==
    \A p \in Projects \ prjTable :
        (purge.pc = "idle" \/ purge.prj_id # p \/ purge.was_gone) => prjContent[p] = EmptyContent

\* C15 witness: a delete of a project deleted before has failed, while the
\* other project still has its row, objects and parents.
C15_Witness ==
    /\ purge.pc = "failed" /\ purge.was_gone
    /\ prjContent[purge.prj_id] = EmptyContent
    /\ \E p \in prjTable : prjContent[p].objects # {} /\ prjContent[p].parents # {}

\* The positions of the trace of the call holding a statement on a table.
StmtIdx(tbl) == {i \in DOMAIN purge.trace : purge.trace[i].tbl = tbl}

Before(tbl1, tbl2) == \A i \in StmtIdx(tbl1), j \in StmtIdx(tbl2) : i < j

\* C25: during a project deletion no row is deleted while a row that
\* references it still exists: the acquisitions of the project are deleted
\* before its samples, and its samples and its privilege rows are deleted
\* before the project row.
C25_ChildrenBeforeParents ==
    /\ \A i \in DOMAIN purge.trace : purge.trace[i].referenced_by = 0
    /\ Before("acquisitions", "samples")
    /\ Before("samples", "projects")
    /\ Before("projectspriv", "projects")

\* What the code does: acquisitions, then samples, then the project row, and
\* only then the privilege rows, which reference the project row.
C25_ParentsThenProjectThenPrivileges ==
    /\ \A i \in DOMAIN purge.trace :
          purge.trace[i].tbl # "projects" => purge.trace[i].referenced_by = 0
    /\ Before("acquisitions", "samples")
    /\ Before("samples", "projects")
    /\ Before("projects", "projectspriv")

C25_ProjectRowBeforePrivileges ==
    /\ purge.pc = "returned" /\ ~purge.only_objects
    /\ \E i \in StmtIdx("projects") :
          /\ purge.trace[i].referenced_by > 0
          /\ purge.trace[i + 1].tbl = "projectspriv" /\ purge.trace[i + 1].gone > 0
    /\ \E i \in StmtIdx("samples") : purge.trace[i].gone > 0

(***************************************************************************)
(* SpecCollection: the endpoints that create, read, update and delete a    *)
(* collection, over CollectionsService.                                    *)
(***************************************************************************)
MaxColl == 2
HTTP_404 == 404
Abstracts == {"", "A bit less abstract..."}

\* The ids the sequence has given so far, and one it never gave.
CollIds == 1..(MaxColl + 1)

ErasedIds == {x.id : x \in erased}

\* A function without its value at k.
Remove(f, k) == [x \in DOMAIN f \ {k} |-> f[x]]

\* A delete that takes the member projects with the collection.
ProjectsAfterDelete_Cascade(coll_id) ==
    [p \in DOMAIN collProjects \ colls[coll_id].project_ids |-> collProjects[p]]

\* CollectionsService.delete: the projects after it.  They are referred to
\* by the collection, not owned.
ProjectsAfterDelete(coll_id) == collProjects

\* The answer of an endpoint to a caller who is not an administrator
\* (RightsThrower), or the code of its outcome.
Answer(op, user, coll_id, code) ==
    [op |-> op, user |-> user, id |-> coll_id,
     code |-> IF user \in AppAdmins THEN code ELSE HTTP_403,
     was_erased |-> coll_id \in ErasedIds]

\* POST /collections/create, with at least one project inside.
create_collection(user, project_ids) ==
    /\ nextColl <= MaxColl
    /\ project_ids # {}
    /\ collCall' = Answer("create", user, nextColl, HTTP_200)
    /\ IF user \in AppAdmins
       THEN /\ colls' = [x \in DOMAIN colls \cup {nextColl} |->
                            IF x = nextColl
                            THEN [project_ids |-> project_ids, abstract |-> ""]
                            ELSE colls[x]]
            /\ nextColl' = nextColl + 1
       ELSE UNCHANGED <<colls, nextColl>>
    /\ UNCHANGED <<collProjects, erased, outCollection>>

\* GET /collections/{collection_id}:
\*   present_collection = sce.query(current_user, collection_id, for_update=False)
\*   if present_collection is None: raise HTTPException(status_code=404, ...)
get_collection(user, collection_id) ==
    /\ collCall' = Answer("get", user, collection_id,
                          IF collection_id \in DOMAIN colls THEN HTTP_200 ELSE HTTP_404)
    /\ UNCHANGED <<colls, collProjects, nextColl, erased, outCollection>>

\* PUT /collections/{collection_id}
update_collection(user, collection_id, abstract) ==
    /\ collCall' = Answer("update", user, collection_id,
                          IF collection_id \in DOMAIN colls THEN HTTP_200 ELSE HTTP_404)
    /\ IF user \in AppAdmins /\ collection_id \in DOMAIN colls
       THEN colls' = [colls EXCEPT ![collection_id].abstract = abstract]
       ELSE UNCHANGED colls
    /\ UNCHANGED <<collProjects, nextColl, erased, outCollection>>

\* DELETE /collections/{collection_id}
erase_collection(user, collection_id) ==
    /\ collCall' = Answer("delete", user, collection_id, HTTP_200)
    /\ IF user \in AppAdmins /\ collection_id \in DOMAIN colls
       THEN /\ colls' = Remove(colls, collection_id)
            /\ collProjects' = ProjectsAfterDelete(collection_id)
            /\ erased' = erased \cup {[id |-> collection_id,
                                       project_ids |-> colls[collection_id].project_ids,
                                       projects |-> collProjects]}
       ELSE UNCHANGED <<colls, collProjects, erased>>
    /\ UNCHANGED <<nextColl, outCollection>>

CollectionInit ==
    /\ colls = <<>>
    /\ collProjects = [p \in Projects |-> [objects |-> {p}, title |-> "Collection project"]]
    /\ nextColl = 1
    /\ erased = {}
    /\ collCall = NoCollCall
    /\ FirstIdle /\ UsersIdle /\ PasswordIdle /\ MruIdle /\ PurgeIdle /\ PrefsIdle /\ TaxoQueryIdle /\ LineageIdle /\ FieldsIdle /\ MailIdle /\ ServiceIdle /\ MigrationIdle

CollectionNext ==
    \/ \E user \in Users, project_ids \in SUBSET Projects : create_collection(user, project_ids)
    \/ \E user \in Users, collection_id \in CollIds : get_collection(user, collection_id)
    \/ \E user \in Users, collection_id \in CollIds, abstract \in Abstracts :
          update_collection(user, collection_id, abstract)
    \/ \E user \in Users, collection_id \in CollIds : erase_collection(user, collection_id)

SpecCollection == CollectionInit /\ [][CollectionNext]_vars

\* C16: a read, by an administrator, of the id of a collection deleted
\* before answers 404, and the projects that were members of a deleted
\* collection exist with the content they had when it was deleted.
C16_ErasedNotFoundProjectsKept ==
    /\ (collCall.op = "get" /\ collCall.was_erased /\ collCall.user \in AppAdmins)
          => collCall.code = HTTP_404
    /\ \A x \in erased : \A p \in x.project_ids :
          p \in DOMAIN collProjects /\ collProjects[p] = x.projects[p]

\* C16 witness: an administrator has read a deleted collection while another
\* collection on the same project is there.
C16_Witness ==
    /\ collCall.op = "get" /\ collCall.was_erased /\ collCall.user \in AppAdmins
    /\ \E c \in DOMAIN colls, x \in erased : colls[c].project_ids \cap x.project_ids # {}

(***************************************************************************)
(* SpecPrefs: UserBO.set_preferences_per_project and                       *)
(* get_preferences_per_project of one user.  A dict is a function from     *)
(* keys to values; json_prefs is its text, the sequence of its             *)
(* <<key, value>> members.                                                 *)
(***************************************************************************)
PrefProjects == {1, 2}
PrefKeys == {"cwd", "filters"}
PrefValues == {"", "a", "b"}
MaxSets == 4

\* json.loads(json_prefs)
json_loads(json_text) ==
    [k \in {json_text[i][1] : i \in 1..Len(json_text)} |->
        json_text[CHOOSE i \in 1..Len(json_text) : json_text[i][1] = k][2]]

\* json.dumps(a_dict): the members, one after the other.
RECURSIVE json_dumps(_)
json_dumps(a_dict) ==
    IF DOMAIN a_dict = {} THEN <<>>
    ELSE LET k == CHOOSE x \in DOMAIN a_dict : TRUE
         IN <<<<k, a_dict[k]>>>> \o json_dumps([x \in DOMAIN a_dict \ {k} |-> a_dict[x]])

\* A set that forgets the other keys of the project.
SetKey_Alone(all_prefs_for_proj, key, value) ==
    IF value = "" THEN <<>> ELSE [k \in {key} |-> value]

\* all_prefs_for_proj[key] = value
\* if value == "": del all_prefs_for_proj[key]
SetKey(all_prefs_for_proj, key, value) ==
    LET assigned == [k \in DOMAIN all_prefs_for_proj \cup {key} |->
                        IF k = key THEN value ELSE all_prefs_for_proj[k]]
    IN IF value = "" THEN [k \in DOMAIN assigned \ {key} |-> assigned[k]] ELSE assigned

\* The dict of the user's row for the project, or an empty one.
AllPrefsForProj(rows, project_id) ==
    IF project_id \in DOMAIN rows THEN json_loads(rows[project_id]) ELSE <<>>

\* all_prefs_for_proj.get(key, "")
GetPref(rows, project_id, key) ==
    LET all_prefs_for_proj == AllPrefsForProj(rows, project_id)
    IN IF key \in DOMAIN all_prefs_for_proj THEN all_prefs_for_proj[key] ELSE ""

set_preferences_per_project(project_id, key, value) ==
    /\ prefCall.sets < MaxSets
    /\ prefRows' = [p \in DOMAIN prefRows \cup {project_id} |->
                      IF p = project_id
                      THEN json_dumps(SetKey(AllPrefsForProj(prefRows, project_id), key, value))
                      ELSE prefRows[p]]
    /\ lastSet' = [lastSet EXCEPT ![<<project_id, key>>] = value]
    /\ prefCall' = [NoPrefCall EXCEPT !.sets = prefCall.sets + 1]
    /\ UNCHANGED outPrefs

get_preferences_per_project(project_id, key) ==
    /\ prefCall' = [prefCall EXCEPT !.project_id = project_id, !.key = key,
                                    !.ret = GetPref(prefRows, project_id, key)]
    /\ UNCHANGED <<prefRows, lastSet, outPrefs>>

PrefsInit ==
    /\ prefRows = <<>>
    /\ lastSet = [pk_ \in PrefProjects \X PrefKeys |-> ""]
    /\ prefCall = NoPrefCall
    /\ FirstIdle /\ UsersIdle /\ PasswordIdle /\ MruIdle /\ PurgeIdle /\ CollectionIdle /\ TaxoQueryIdle /\ LineageIdle /\ FieldsIdle /\ MailIdle /\ ServiceIdle /\ MigrationIdle

PrefsNext ==
    \/ \E project_id \in PrefProjects, key \in PrefKeys, value \in PrefValues :
          set_preferences_per_project(project_id, key, value)
    \/ \E project_id \in PrefProjects, key \in PrefKeys :
          get_preferences_per_project(project_id, key)

SpecPrefs == PrefsInit /\ [][PrefsNext]_vars

\* C17: after any sequence of sets, the preference read for every project
\* and key is the value last set for them, the empty string when the key
\* was never set or last set to the empty string; so a set changes what is
\* read for no other key and no other project.
C17_ReadsLastSet ==
    /\ \A project_id \in PrefProjects, key \in PrefKeys :
          GetPref(prefRows, project_id, key) = lastSet[<<project_id, key>>]
    /\ prefCall.project_id # 0 =>
          prefCall.ret = lastSet[<<prefCall.project_id, prefCall.key>>]

\* C17 witness: a key read as empty after being set and then set to the
\* empty string, while the other key of the project and a key of the
\* other project keep their values.
C17_Witness ==
    /\ prefCall.project_id = 1 /\ prefCall.key = "cwd" /\ prefCall.ret = ""
    /\ 1 \in DOMAIN prefRows /\ 2 \in DOMAIN prefRows
    /\ prefCall.sets = MaxSets
    /\ GetPref(prefRows, 1, "filters") = "a"
    /\ GetPref(prefRows, 2, "cwd") = "b"

(***************************************************************************)
(* SpecTaxoQuery: TaxonomyBO.query,                                        *)
(*   SELECT ... CASE WHEN tf.id = ANY(priority_set) THEN 0 ELSE 1 END prio *)
(*   WHERE ... ORDER BY prio, lower(tf.display_name) LIMIT MAX_MATCHES     *)
(***************************************************************************)
\* TaxonomyBO.MAX_MATCHES, scaled down to the size of the model.
MAX_MATCHES == 2

\* The taxa of the table: enough of them to pass the limit by two.
QTaxa == 1..(MAX_MATCHES + 2)
DisplayNames == {"abra", "Abra", "zoea"}

\* func.lower(tf.c.display_name)
Lower(display_name) == IF display_name = "Abra" THEN "abra" ELSE display_name

\* The place of a lowercase name in the order of the database.
NameRank(lower_name) == IF lower_name = "abra" THEN 1 ELSE 2

\* lower(display_name) LIKE display_name_filter, for the two filters of the model
Like(lower_name, display_name_filter) ==
    IF display_name_filter = "%" THEN TRUE ELSE lower_name = "abra"

\* case([(tf.c.id == any_(priority_set), text('0'))], else_=text('1'))
Prio(id, priority_set) == IF id \in priority_set THEN 0 ELSE 1

\* The rows the WHERE clauses keep (without name_filters).
Matches(names, q) ==
    {id \in DOMAIN names :
        /\ q.restricted => id \in q.restrict_to
        /\ Like(Lower(names[id]), q.display_name_filter)}

\* ORDER BY prio, lower(display_name): whether row x may come before row y.
NotAfter(names, q, x, y) ==
    \/ Prio(x, q.priority_set) < Prio(y, q.priority_set)
    \/ /\ Prio(x, q.priority_set) = Prio(y, q.priority_set)
       /\ NameRank(Lower(names[x])) <= NameRank(Lower(names[y]))

\* The orders in which the database may return the rows S; rows of equal
\* prio and name come in any order.
RECURSIVE Ordered(_, _, _)
Ordered(names, q, S) ==
    IF S = {} THEN {<<>>}
    ELSE UNION {{<<x>> \o l : l \in Ordered(names, q, S \ {x})} :
                   x \in {y \in S : \A z \in S : NotAfter(names, q, y, z)}}

\* qry.limit(cls.MAX_MATCHES); res.fetchall()
TaxonomyBO_query(names, q) ==
    {Head_n(l, MAX_MATCHES) : l \in Ordered(names, q, Matches(names, q))}

TaxoQuery ==
    /\ ~taxoQ.done
    /\ \E res \in TaxonomyBO_query(taxoNames, taxoQ) :
          taxoQ' = [taxoQ EXCEPT !.done = TRUE, !.res = res]
    /\ UNCHANGED <<taxoNames, outTaxoQuery>>

TaxoQueryInit ==
    /\ taxoNames \in [QTaxa -> DisplayNames]
    /\ taxoQ \in [restrict_to : {QTaxa \ {1}}, restricted : BOOLEAN,
                  priority_set : SUBSET QTaxa, display_name_filter : {"%", "abra%"},
                  done : {FALSE}, res : {<<>>}]
    /\ FirstIdle /\ UsersIdle /\ PasswordIdle /\ MruIdle /\ PurgeIdle /\ CollectionIdle /\ LineageIdle /\ FieldsIdle /\ MailIdle /\ ServiceIdle /\ MigrationIdle
    /\ PrefsIdle

TaxoQueryNext == TaxoQuery

SpecTaxoQuery == TaxoQueryInit /\ [][TaxoQueryNext]_vars

InResult(id) == \E i \in 1..Len(taxoQ.res) : taxoQ.res[i] = id

PriorityMatches == Matches(taxoNames, taxoQ) \cap taxoQ.priority_set

\* Every priority taxon of the result is placed before every other one.
PriorityBefore ==
    \A i, j \in 1..Len(taxoQ.res) :
        (taxoQ.res[i] \in taxoQ.priority_set /\ taxoQ.res[j] \notin taxoQ.priority_set) => i < j

\* C18: the query returns at most MAX_MATCHES taxa, and every taxon of
\* priority_set that satisfies the filters is in the result, before every
\* non-priority taxon, whatever the number of matching taxa and the size
\* of priority_set.
C18_PriorityAlwaysReturned ==
    taxoQ.done =>
        /\ Len(taxoQ.res) <= MAX_MATCHES
        /\ \A id \in PriorityMatches : InResult(id)
        /\ PriorityBefore

\* C18, what holds: at most MAX_MATCHES taxa, the priority ones first, and
\* every matching priority taxon when they are MAX_MATCHES at most;
\* with more of them, MAX_MATCHES priority taxa and nothing else.
C18_PriorityFirstWithinLimit ==
    taxoQ.done =>
        /\ Len(taxoQ.res) <= MAX_MATCHES
        /\ PriorityBefore
        /\ Cardinality(PriorityMatches) <= MAX_MATCHES => \A id \in PriorityMatches : InResult(id)
        /\ Cardinality(PriorityMatches) > MAX_MATCHES =>
              /\ Len(taxoQ.res) = MAX_MATCHES
              /\ \A i \in 1..Len(taxoQ.res) : taxoQ.res[i] \in PriorityMatches

\* A query with more matching priority taxa than MAX_MATCHES has returned.
C18_MorePriorityThanLimit ==
    /\ taxoQ.done
    /\ Cardinality(PriorityMatches) > MAX_MATCHES
    /\ \E id \in PriorityMatches : ~InResult(id)

(***************************************************************************)
(* SpecLineage: TaxonBOSet.__init__, the chain of outer joins of           *)
(* TaxonomyBO._add_recursive_query and the lineages read from its rows.    *)
(***************************************************************************)
\* TaxonomyBO.MAX_TAXONOMY_LEVELS, scaled down to the size of the model.
MAX_TAXONOMY_LEVELS == 3

\* The taxa of the table: enough for a branch one level too deep.
TreeTaxa == 1..(MAX_TAXONOMY_LEVELS + 1)
\* SQL NULL in a name column.
NoName == ""

\* A chain of joins that stops one alias short.
JoinedLevels_OneLess == 1..(MAX_TAXONOMY_LEVELS - 2)

\* The aliases t1 .. t19 joined to tf: t1 by hand, then
\* for level in range(2, cls.MAX_TAXONOMY_LEVELS)
JoinedLevels == 1..(MAX_TAXONOMY_LEVELS - 1)

\* The row of alias t<level> for the row id of tf: the ancestor of that
\* level, NULL when the outer join finds none.
RECURSIVE Alias(_, _, _)
Alias(tree, id, level) ==
    IF level = 0 THEN id
    ELSE LET below == Alias(tree, id, level - 1)
         IN IF below = NULL THEN NULL ELSE tree[below].parent_id

NameOf(tree, id) == IF id = NULL THEN NoName ELSE tree[id].name

\* lst_rec[0::2]: tf.id, then t<level>.id for level in range(1, MAX_TAXONOMY_LEVELS)
IdColumns(tree, id) ==
    [i \in 1..MAX_TAXONOMY_LEVELS |->
        IF i - 1 = 0 \/ i - 1 \in JoinedLevels THEN Alias(tree, id, i - 1) ELSE NULL]

\* lst_rec[1::2]
NameColumns(tree, id) ==
    [i \in 1..MAX_TAXONOMY_LEVELS |-> NameOf(tree, IdColumns(tree, id)[i])]

\* TaxonBO(cat_type, display_name, nbobj1, nbobj2, lineage, lineage_id)
TaxonBO(tree, id) ==
    LET lineage_id == SelectSeq(IdColumns(tree, id), LAMBDA an_id : an_id # NULL)
        lineage == SelectSeq(NameColumns(tree, id), LAMBDA name : name # NoName)
    IN [id |-> lineage_id[1], name |-> lineage[1],
        lineage |-> lineage, id_lineage |-> lineage_id]

\* qry.where(tf.c.id == any_(taxon_ids)); one TaxonBO per row
TaxonBOSet ==
    /\ ~taxonSet.done
    /\ taxonSet' = [taxonSet EXCEPT !.done = TRUE,
                       !.taxa = {[asked |-> id, bo |-> TaxonBO(taxoTree, id)] :
                                    id \in taxonSet.taxon_ids \cap DOMAIN taxoTree}]
    /\ UNCHANGED <<taxoTree, outLineage>>

\* The trees of the model: the parent of a taxon has a smaller id, and the
\* names are not empty; two taxa may have the same name.
TaxonNames == {"Copepoda", "Calanus"}

LineageInit ==
    /\ taxoTree \in {t \in [TreeTaxa -> [name : TaxonNames, parent_id : TreeTaxa \cup {NULL}]] :
                        /\ \A id \in TreeTaxa : t[id].parent_id < id
                        /\ \A id \in TreeTaxa : id > 2 => t[id].name = "Calanus"}
    /\ taxonSet \in [taxon_ids : {{id} : id \in TreeTaxa} \cup {TreeTaxa, {0}},
                     done : {FALSE}, taxa : {{}}]
    /\ FirstIdle /\ UsersIdle /\ PasswordIdle /\ MruIdle /\ PurgeIdle /\ CollectionIdle /\ FieldsIdle /\ MailIdle /\ ServiceIdle /\ MigrationIdle
    /\ PrefsIdle /\ TaxoQueryIdle

LineageNext == TaxonBOSet

SpecLineage == LineageInit /\ [][LineageNext]_vars

\* The number of levels from a taxon up to its root, both included.
RECURSIVE Depth(_, _)
Depth(tree, id) == IF tree[id].parent_id = NULL THEN 1 ELSE 1 + Depth(tree, tree[id].parent_id)

\* C19: for every returned taxon of depth MAX_TAXONOMY_LEVELS at most,
\* id_lineage starts with the taxon's id and lineage with its name, both
\* have the same length, each next entry is the parent of the previous one
\* with its name, and the last entry is a root.
C19_LineageIsParentChain ==
    \A t \in taxonSet.taxa :
        Depth(taxoTree, t.asked) <= MAX_TAXONOMY_LEVELS =>
            LET ids == t.bo.id_lineage
                names == t.bo.lineage
            IN /\ ids[1] = t.asked /\ t.bo.id = t.asked
               /\ names[1] = taxoTree[t.asked].name /\ t.bo.name = names[1]
               /\ Len(ids) = Len(names)
               /\ \A i \in 1..(Len(ids) - 1) :
                     /\ ids[i + 1] = taxoTree[ids[i]].parent_id
                     /\ names[i + 1] = taxoTree[ids[i + 1]].name
               /\ taxoTree[ids[Len(ids)]].parent_id = NULL

\* C19 witness: a taxon of depth MAX_TAXONOMY_LEVELS exactly is returned
\* with a lineage of that length, from a tree that also has a deeper taxon.
C19_Witness ==
    /\ taxonSet.done
    /\ \E t \in taxonSet.taxa :
          /\ Depth(taxoTree, t.asked) = MAX_TAXONOMY_LEVELS
          /\ Len(t.bo.id_lineage) = MAX_TAXONOMY_LEVELS
    /\ \E id \in TreeTaxa : Depth(taxoTree, id) > MAX_TAXONOMY_LEVELS

(***************************************************************************)
(* SpecFields: ObjectBO.resolve_fields on a list of field references.  A   *)
(* reference is the sequence of the parts its dots separate:               *)
(* "obj.objid" is <<"obj", "objid">>.                                      *)
(***************************************************************************)
MaxFields == 2

\* The name left of a reference with more than one dot; no class has it.
DottedName == "a.b"

FieldRefs ==
    {<<"obj", "objid">>, <<"obj", "imgcount">>, <<"obj", "nosuch">>,
     <<"fre", "area">>, <<"fre", "nosuch">>, <<"txo", "name">>,
     <<"sam", "orig_id">>, <<"sam", "propagate_geo">>, <<"usr", "__tablename__">>,
     <<"zzz", "objid">>, <<"objid">>, <<"obj", "a", "b">>}

\* prfx, name = a_field.split(".", 1) does not raise ValueError
SplitsInTwo(a_field) == Len(a_field) >= 2

SplitName(a_field) == IF Len(a_field) = 2 THEN a_field[2] ELSE DottedName

\* ObjectBO._field_to_db_col(a_field, mappings)
field_to_db_col_of(a_field) ==
    IF ~SplitsInTwo(a_field) THEN NoDbCol
    ELSE field_to_db_col(a_field[1], SplitName(a_field))

\* The loop of resolve_fields: the columns of the references that are not
\* dropped, in the order of the list.
RECURSIVE ResolveLoop(_)
ResolveLoop(fields_list) ==
    IF fields_list = <<>> THEN <<>>
    ELSE LET a_col == field_to_db_col_of(Head(fields_list))
         IN IF a_col = NoDbCol THEN ResolveLoop(Tail(fields_list))
            ELSE <<a_col>> \o ResolveLoop(Tail(fields_list))

resolve_fields ==
    /\ ~fieldsCall.done
    /\ fieldsCall' = [fieldsCall EXCEPT
                         !.done = TRUE,
                         !.ret = IF fieldsCall.is_none \/ Len(fieldsCall.fields_list) = 0
                                 THEN <<>>
                                 ELSE ResolveLoop(fieldsCall.fields_list)]
    /\ UNCHANGED outFields

FieldsInit ==
    /\ fieldsCall \in [fields_list : UNION {[1..n -> FieldRefs] : n \in 0..MaxFields},
                       is_none : {FALSE}, done : {FALSE}, raised : {FALSE}, ret : {<<>>}]
                      \cup {[NoFieldsCall EXCEPT !.is_none = TRUE]}
    /\ FirstIdle /\ UsersIdle /\ PasswordIdle /\ MruIdle /\ PurgeIdle /\ CollectionIdle /\ MailIdle /\ ServiceIdle /\ MigrationIdle
    /\ PrefsIdle /\ TaxoQueryIdle /\ LineageIdle

FieldsNext == resolve_fields

SpecFields == FieldsInit /\ [][FieldsNext]_vars

\* The columns a prefix gives access to.
ColsOfPrefix(prfx) ==
    IF prfx = "obj" THEN ObjectHeaderCols \cup {"imgcount"}
    ELSE IF prfx = "fre" THEN DOMAIN tsv_cols_to_real
    ELSE IF prfx = "img" THEN ImageCols
    ELSE IF prfx \in {"txo", "txp"} THEN TaxonomyCols
    ELSE IF prfx = "sam" THEN SampleCols
    ELSE IF prfx = "acq" THEN AcquisitionCols
    ELSE IF prfx = "usr" THEN UserCols
    ELSE {}

\* A reference that resolves, as stated: a known prefix with a known
\* column name, or a mapped free column.
Resolves(a_field) == Len(a_field) = 2 /\ a_field[2] \in ColsOfPrefix(a_field[1])

RECURSIVE ColumnsOf(_)
ColumnsOf(fields_list) ==
    IF fields_list = <<>> THEN <<>>
    ELSE <<field_to_db_col_of(Head(fields_list))>> \o ColumnsOf(Tail(fields_list))

\* C20: resolve_fields never raises and returns, in the order of the list,
\* one column expression for each reference that resolves, dropping every
\* other reference: unknown prefix, unknown name, no '.' separator.
C20_OnlyResolvedColumns ==
    fieldsCall.done =>
        /\ ~fieldsCall.raised
        /\ fieldsCall.ret = ColumnsOf(SelectSeq(fieldsCall.fields_list, Resolves))

\* C20, what holds: no raise; the result holds, in the order of the list,
\* the columns of all the references that resolve, and nothing for a
\* reference without '.' or with an unknown prefix; a known prefix with the
\* name of another attribute of the mapped class is kept too.
C20_ResolvedColumnsKept ==
    fieldsCall.done =>
        /\ ~fieldsCall.raised
        /\ fieldsCall.ret =
              ColumnsOf(SelectSeq(fieldsCall.fields_list,
                                  LAMBDA f : field_to_db_col_of(f) # NoDbCol))
        /\ \A i \in 1..Len(fieldsCall.fields_list) :
              Resolves(fieldsCall.fields_list[i])
                  => field_to_db_col_of(fieldsCall.fields_list[i]) # NoDbCol
        /\ \A i \in 1..Len(fieldsCall.fields_list) :
              (Len(fieldsCall.fields_list[i]) < 2 \/ ColsOfPrefix(fieldsCall.fields_list[i][1]) = {})
                  => field_to_db_col_of(fieldsCall.fields_list[i]) = NoDbCol

\* A list with a method name under a known prefix has been resolved.
C20_MethodNameKept ==
    /\ fieldsCall.done
    /\ Len(fieldsCall.ret) = 2
    /\ fieldsCall.fields_list = <<<<"sam", "propagate_geo">>, <<"obj", "objid">>>>

(***************************************************************************)
(* SpecMail: MailProvider built from a sender account, then send_mail.     *)
(***************************************************************************)
\* A string is the sequence of its characters.  The characters kept are one
\* of each kind the regular expression of is_email tells apart.
MailChars == {"a", "Z", "9", ".", "-", "_", "@", "|"}

\* [A-Za-z0-9]
AlphaNum == {"a", "Z", "9"}

\* [.-_] is the range from '.' (0x2E) to '_' (0x5F): the digits, the upper
\* case letters, '.', '@' and '_' among others, but neither '-' nor the lower
\* case letters.
DotToUnderscore == {".", "9", "@", "Z", "_"}

\* [A-Za-z0-9-]
AlphaNumHyphen == AlphaNum \cup {"-"}

\* [A-Z|a-z]
LettersOrBar == {"a", "Z", "|"}

\* Positions after one character of class cls read from a position of P.
Step(s, P, cls) == {p + 1 : p \in {q \in P : q <= Len(s) /\ s[q] \in cls}}

\* Positions after n or more characters of class cls read from P.
RECURSIVE AtLeast(_, _, _, _)
AtLeast(s, P, cls, n) ==
    IF n > 0 THEN AtLeast(s, Step(s, P, cls), cls, n - 1)
    ELSE IF Step(s, P, cls) \subseteq P THEN P
    ELSE AtLeast(s, P \cup Step(s, P, cls), cls, 0)

\* ([A-Za-z0-9]+[.-_])*
RECURSIVE LocalParts(_, _)
LocalParts(s, P) ==
    LET more == Step(s, AtLeast(s, P, AlphaNum, 1), DotToUnderscore)
    IN  IF more \subseteq P THEN P ELSE LocalParts(s, P \cup more)

\* (\.[A-Z|a-z]{2,})+
RECURSIVE DomainEnds(_, _, _)
DomainEnds(s, P, first) ==
    LET more == AtLeast(s, Step(s, P, {"."}), LettersOrBar, 2)
    IN  IF first THEN DomainEnds(s, more, FALSE)
        ELSE IF more \subseteq P THEN P
        ELSE DomainEnds(s, P \cup more, FALSE)

\* MailProvider.is_email: re.fullmatch of
\* ([A-Za-z0-9]+[.-_])*[A-Za-z0-9]+@[A-Za-z0-9-]+(\.[A-Z|a-z]{2,})+
is_email(email) ==
    LET local  == AtLeast(email, LocalParts(email, {1}), AlphaNum, 1)
        at     == Step(email, local, {"@"})
        host   == AtLeast(email, at, AlphaNumHyphen, 1)
    IN  (Len(email) + 1) \in DomainEnds(email, host, TRUE)

\* The strings tried as first item of the sender account and as recipient.
Addresses ==
    { <<"a", "@", "a", ".", "a", "a">>,
      <<"a", ".", "a", "@", "a", "-", "a", ".", "Z", "a">>,
      <<"a", "@", "a">>,
      <<"a", "-", "a", "@", "a", ".", "a", "a">>,
      <<"a", "a">>,
      <<>> }

MaxMails == 2

\* The lists given as senderaccount: from no item to five items, the first
\* an address or not, the others a password, a host and a port.
SenderAccounts ==
    {<<>>} \cup
    {[i \in 1..n |-> IF i = 1 THEN a ELSE <<"a">>] : n \in {1, 3, 4, 5}, a \in Addresses}

\* on = len(senderaccount) == 4 and self.is_email(senderaccount[0])
SenderOn(senderaccount) == Len(senderaccount) = 4 /\ is_email(senderaccount[1])

\* MailProvider.__init__: the attribute senderaccount is assigned only when
\* the account is usable; the class defines no attribute of that name.
MailProvider_init ==
    /\ ~mailer.built
    /\ mailer' = [mailer EXCEPT !.built = TRUE,
                                !.account_set = SenderOn(mailer.senderaccount)]
    /\ UNCHANGED <<mailCall, smtp>>
    /\ UNCHANGED outMail

\* send_mail up to the import of smtplib.  The read of self.senderaccount
\* raises AttributeError when __init__ did not assign it; when assigned it is
\* the list, never None, so the early return is not taken.  The HTTPException
\* for a recipient that is no address is built and not raised.
send_mail ==
    /\ mailer.built /\ mailCall.pc \in {"idle", "done"}
    /\ mailer.calls < MaxMails
    /\ \E email \in Addresses :
        /\ mailer' = [mailer EXCEPT !.calls = @ + 1]
        /\ IF ~mailer.account_set
              THEN mailCall' = [email |-> email, pc |-> "done",
                                outcome |-> "AttributeError"]
              ELSE mailCall' = [email |-> email, pc |-> "smtp", outcome |-> "none"]
    /\ UNCHANGED smtp
    /\ UNCHANGED outMail

\* smtplib.SMTP_SSL(...), login, sendmail, quit: the server is contacted; the
\* mail is sent, or any failure becomes an HTTPException (422).
smtp_send ==
    /\ mailCall.pc = "smtp"
    /\ smtp' = Append(smtp, mailCall.email)
    /\ \E ok \in BOOLEAN :
        mailCall' = [mailCall EXCEPT !.pc = "done",
                                     !.outcome = IF ok THEN "returned" ELSE "HTTP_422"]
    /\ UNCHANGED mailer
    /\ UNCHANGED outMail

MailInit ==
    /\ mailer \in [senderaccount : SenderAccounts, account_set : {FALSE},
                   built : {FALSE}, calls : {0}]
    /\ mailCall = NoMailCall
    /\ smtp = <<>>
    /\ FirstIdle /\ UsersIdle /\ PasswordIdle /\ MruIdle /\ PurgeIdle /\ CollectionIdle /\ ServiceIdle /\ MigrationIdle
    /\ PrefsIdle /\ TaxoQueryIdle /\ LineageIdle /\ FieldsIdle

MailNext == MailProvider_init \/ send_mail \/ smtp_send

SpecMail == MailInit /\ [][MailNext]_vars

\* A provider built without a usable sender account.
NoUsableSender == mailer.built /\ ~SenderOn(mailer.senderaccount)

\* C21: when MailProvider is built without a usable sender account, every
\* call of send_mail returns normally, raises no error and contacts no SMTP
\* server.
C21_NoSenderSilentNoOp ==
    (NoUsableSender /\ mailCall.pc = "done")
        => (mailCall.outcome = "returned" /\ smtp = <<>>)

\* What the code does in that case: no server is contacted, and the call ends
\* with the AttributeError of the read of self.senderaccount.
C21_NoSenderNoSmtp ==
    NoUsableSender => (smtp = <<>> /\ mailCall.outcome \in {"none", "AttributeError"})

C21_NoSenderRaises ==
    /\ NoUsableSender /\ mailCall.pc = "done"
    /\ Len(mailer.senderaccount) = 0
    /\ mailCall.outcome = "AttributeError"

(***************************************************************************)
(* SpecService: request threads constructing Service instances from the    *)
(* connections of the class, writing in their sessions, committing and     *)
(* closing; re_init_after_fork.                                            *)
(***************************************************************************)
SvcThreads == {1, 2}
\* The Services a thread constructs one after the other.
MaxInst == 2
MaxForks == 1
MaxCommits == 2

\* Service.the_connection = None
NoConnection == 0

\* The steps of a thread inside Service.__init__.
InInit == {"build", "readonly", "build_ro", "sessions"}

\* A new Connection: the next id.
NewConnection == svcClass.next

\* __init__, line 81: "if not Service.the_connection".
Service_init(t) ==
    /\ svc[t].pc = "idle" /\ svc[t].insts < MaxInst
    /\ svc' = [svc EXCEPT ![t] =
         IF svcClass.the_connection = NoConnection
         THEN [@ EXCEPT !.pc = "build", !.last = "none"]
         ELSE [@ EXCEPT !.pc = "readonly", !.conn = svcClass.the_connection,
                        !.last = "none"]]
    /\ svcClass' = [svcClass EXCEPT !.overlap =
                       @ \/ \E u \in SvcThreads \ {t} : svc[u].pc \in InInit]
    /\ UNCHANGED svcDb
    /\ UNCHANGED outService

\* __init__, lines 82-84: conn = self.build_connection(config);
\* Service.the_connection = conn
build_connection(t) ==
    /\ svc[t].pc = "build"
    /\ svc' = [svc EXCEPT ![t] = [@ EXCEPT !.pc = "readonly", !.conn = NewConnection]]
    /\ svcClass' = [svcClass EXCEPT !.the_connection = NewConnection,
                                    !.next = @ + 1, !.built_rw = @ + 1]
    /\ UNCHANGED svcDb
    /\ UNCHANGED outService

\* __init__, line 88: "if not Service.the_readonly_connection".
readonly_connection(t) ==
    /\ svc[t].pc = "readonly"
    /\ svc' = [svc EXCEPT ![t] =
         IF svcClass.the_readonly_connection = NoConnection
         THEN [@ EXCEPT !.pc = "build_ro"]
         ELSE [@ EXCEPT !.pc = "sessions",
                        !.ro_conn = svcClass.the_readonly_connection]]
    /\ UNCHANGED <<svcClass, svcDb>>
    /\ UNCHANGED outService

\* __init__, lines 89-93: a read-only connection if RO_DB_HOST is configured,
\* else the read-write one; Service.the_readonly_connection = ro_conn
build_readonly_connection(t) ==
    /\ svc[t].pc = "build_ro"
    /\ IF svcClass.ro_configured
       THEN /\ svc' = [svc EXCEPT ![t] = [@ EXCEPT !.pc = "sessions",
                                                   !.ro_conn = NewConnection]]
            /\ svcClass' = [svcClass EXCEPT !.the_readonly_connection = NewConnection,
                                            !.next = @ + 1, !.built_ro = @ + 1]
       ELSE /\ svc' = [svc EXCEPT ![t] = [@ EXCEPT !.pc = "sessions",
                                                   !.ro_conn = svc[t].conn]]
            /\ svcClass' = [svcClass EXCEPT !.the_readonly_connection = svc[t].conn]
    /\ UNCHANGED svcDb
    /\ UNCHANGED outService

\* __init__, lines 97-106: the sessions; when they differ the read-write one
\* gets the attribute "ro" and the listener abort_ro before its commits.
feed_sessions(t) ==
    /\ svc[t].pc = "sessions"
    /\ svc' = [svc EXCEPT ![t] = [@ EXCEPT !.pc = "open", !.rw_new = FALSE,
                                          !.ro_new = FALSE,
                                          !.has_ro = svc[t].ro_conn # svc[t].conn]]
    /\ UNCHANGED <<svcClass, svcDb>>
    /\ UNCHANGED outService

\* The code of the service adds, changes or deletes an ORM object in one of
\* its sessions; ro_session is session when the connections are the same.
orm_write(t, in_ro) ==
    /\ svc[t].pc = "open"
    /\ svc' = [svc EXCEPT ![t] =
         IF in_ro /\ svc[t].ro_conn # svc[t].conn
         THEN [@ EXCEPT !.ro_new = TRUE, !.last = "none"]
         ELSE [@ EXCEPT !.rw_new = TRUE, !.last = "none"]]
    /\ UNCHANGED <<svcClass, svcDb>>
    /\ UNCHANGED outService

\* A listener that never raises.
abort_ro_Returns(has_ro, ro_new) == FALSE

\* Service.abort_ro: raises unless the session has no "ro" or ro is clean.
abort_ro(has_ro, ro_new) == has_ro /\ ro_new

\* self.session.commit(): the listeners before the commit, then the commit.
session_commit(t) ==
    /\ svc[t].pc = "open" /\ svcDb < MaxCommits
    /\ IF abort_ro(svc[t].has_ro, svc[t].ro_new)
       THEN /\ svc' = [svc EXCEPT ![t] = [@ EXCEPT !.last = "AssertionError",
                                                   !.db_before = svcDb]]
            /\ UNCHANGED svcDb
       ELSE /\ svc' = [svc EXCEPT ![t] = [@ EXCEPT !.last = "committed",
                                                   !.db_before = svcDb,
                                                   !.rw_new = FALSE]]
            /\ svcDb' = svcDb + (IF svc[t].rw_new THEN 1 ELSE 0)
    /\ UNCHANGED svcClass
    /\ UNCHANGED outService

\* Service.close_db_sessions, from __exit__
close_sessions(t) ==
    /\ svc[t].pc = "open"
    /\ svc' = [svc EXCEPT ![t] = [NoService EXCEPT !.insts = svc[t].insts + 1]]
    /\ UNCHANGED <<svcClass, svcDb>>
    /\ UNCHANGED outService

\* Service.re_init_after_fork, in a process whose threads hold no Service.
re_init_after_fork ==
    /\ svcClass.forks < MaxForks
    /\ svcClass.the_connection # NoConnection
    /\ \A t \in SvcThreads : svc[t].pc = "idle"
    /\ svcClass' = [svcClass EXCEPT !.the_connection = NoConnection,
                                    !.the_readonly_connection = NoConnection,
                                    !.built_rw = 0, !.built_ro = 0,
                                    !.overlap = FALSE, !.forks = @ + 1]
    /\ UNCHANGED <<svc, svcDb>>
    /\ UNCHANGED outService

ServiceInit ==
    /\ \E ro_configured \in BOOLEAN :
         svcClass = [the_connection |-> NoConnection,
                     the_readonly_connection |-> NoConnection,
                     ro_configured |-> ro_configured, next |-> 1,
                     built_rw |-> 0, built_ro |-> 0, overlap |-> FALSE, forks |-> 0]
    /\ svc = [t \in SvcThreads |-> NoService]
    /\ svcDb = 0
    /\ FirstIdle /\ UsersIdle /\ PasswordIdle /\ MruIdle /\ PurgeIdle /\ CollectionIdle /\ MigrationIdle
    /\ PrefsIdle /\ TaxoQueryIdle /\ LineageIdle /\ FieldsIdle /\ MailIdle

ServiceNext ==
    \/ \E t \in SvcThreads : Service_init(t)
    \/ \E t \in SvcThreads : build_connection(t)
    \/ \E t \in SvcThreads : readonly_connection(t)
    \/ \E t \in SvcThreads : build_readonly_connection(t)
    \/ \E t \in SvcThreads : feed_sessions(t)
    \/ \E t \in SvcThreads, in_ro \in BOOLEAN : orm_write(t, in_ro)
    \/ \E t \in SvcThreads : session_commit(t)
    \/ \E t \in SvcThreads : close_sessions(t)
    \/ re_init_after_fork

SpecService == ServiceInit /\ [][ServiceNext]_vars

\* C27: for every Service whose read-only session is distinct from its
\* read-write session, each commit of the read-write session attempted while
\* the read-only session holds pending ORM changes fails with an assertion
\* before anything is committed, from the construction of the Service to the
\* closing of its sessions.
C27_DirtyReadOnlyStopsCommit ==
    [][\A t \in SvcThreads :
          (svc[t].pc = "open" /\ svc[t].ro_conn # svc[t].conn /\ svc[t].ro_new) =>
              \* the step is not a commit that went through
              /\ svc'[t].last # "committed"
              \* a commit of the thread was refused and changed nothing
              /\ (svc'[t] # svc[t] /\ svc'[t].pc = "open" /\ svc'[t].last # "none") =>
                    /\ svc'[t].last = "AssertionError"
                    /\ svcDb' = svcDb
                    /\ svc'[t].rw_new = svc[t].rw_new
                    /\ svc'[t].ro_new]_vars

\* C27 witness: a commit was refused while both sessions held changes and
\* nothing was committed.
C27_Witness ==
    \E t \in SvcThreads :
        /\ svc[t].pc = "open" /\ svc[t].last = "AssertionError"
        /\ svc[t].rw_new /\ svc[t].ro_new
        /\ svcDb = 0

\* The Services in use get their sessions from the connections of the class.
SameConnections ==
    \A t \in SvcThreads :
        svc[t].pc = "open" =>
            /\ svc[t].conn = svcClass.the_connection
            /\ svc[t].ro_conn = svcClass.the_readonly_connection

\* C28: whatever the number of Service instances constructed in a process,
\* also at the same time by several threads, at most one read-write and at
\* most one read-only connection are built between two calls of
\* re_init_after_fork, and all instances get their sessions from them.
C28_OneConnectionOfEachKind ==
    /\ svcClass.built_rw <= 1 /\ svcClass.built_ro <= 1
    /\ SameConnections

\* What the code ensures: the same, as long as no thread entered __init__
\* while another one was inside it.
C28_OneConnectionWithoutOverlap ==
    ~svcClass.overlap =>
        /\ svcClass.built_rw <= 1 /\ svcClass.built_ro <= 1
        /\ SameConnections

C28_TwoConnectionsBuilt ==
    /\ svcClass.built_rw = 2
    /\ svc[1].pc = "open" /\ svc[2].pc = "open"
    /\ svc[1].conn # svc[2].conn

(***************************************************************************)
(* SpecMigration: upgrade() of revision 4bb7276e86de, statement after      *)
(* statement, on a database of objects with or without parents.            *)
(***************************************************************************)
MaxMigObj == 2
MigObjs == 1..MaxMigObj
\* The rows of projects.
MigProjects == {1, 2}
\* The sample, the acquisition and the process that exist before the upgrade.
OldParent == 1
\* nextval() of the sequences at the time of the upgrade.
FirstNewId == 10

\* '__DUMMY_ID__' || id || '__'
DummyId(id) == <<"__DUMMY_ID__", id, "__">>

\* orig_id like '__DUMMY_ID__%__'
LikeDummy(orig_id) == orig_id[1] = "__DUMMY_ID__" /\ orig_id[Len(orig_id)] = "__"

ParentRowOf(id, orig_id, projid) == [id |-> id, orig_id |-> orig_id, projid |-> projid]

\* The greatest element of a non-empty set of integers.
MaxOf(S) == CHOOSE m \in S : \A n \in S : n <= m

\* The rows inserted for the groups of a GROUP BY, one nextval() each;
\* proj_of gives the projid of the row of a group.
RECURSIVE InsertedFor(_, _, _)
InsertedFor(groups, nextval, proj_of) ==
    IF groups = {} THEN {}
    ELSE LET g == Min(groups)
         IN {ParentRowOf(nextval, DummyId(g), proj_of[g])}
            \cup InsertedFor(groups \ {g}, nextval + 1, proj_of)

\* The value of a scalar subquery: the id of its row, NULL without row.  The
\* statement fails when it has several rows.
Scalar(rows) == IF rows = {} THEN NULL ELSE (CHOOSE r \in rows : TRUE).id

\* insert into samples ... from projects p join obj_head oh ...
\*  where oh.sampleid is null group by oh.projid
insert_samples ==
    /\ mig.pc = "insert_samples"
    /\ LET groups == {mdb.objs[o].projid : o \in {x \in MigObjs :
                          mdb.objs[x].projid \in MigProjects /\ mdb.objs[x].sampleid = NULL}}
       IN mdb' = [mdb EXCEPT
             !.samples = @ \cup InsertedFor(groups, mdb.nextval, [p \in groups |-> p]),
             !.nextval = @ + Cardinality(groups)]
    /\ mig' = [mig EXCEPT !.pc = "update_sampleid"]
    /\ UNCHANGED outMigration

\* update obj_head oh set sampleid = (select max(sa.sampleid) ...)
\*  where oh.projid in (...) and oh.sampleid is null
update_sampleid ==
    /\ mig.pc = "update_sampleid"
    /\ LET dummy_prj == {r.projid : r \in {x \in mdb.samples : LikeDummy(x.orig_id)}}
           found(o) == {sa.id : sa \in {x \in mdb.samples :
                            x.projid = mdb.objs[o].projid
                            /\ x.orig_id = DummyId(mdb.objs[o].projid)}}
       IN mdb' = [mdb EXCEPT !.objs = [o \in MigObjs |->
             IF mdb.objs[o].projid \in dummy_prj /\ mdb.objs[o].sampleid = NULL
             THEN [mdb.objs[o] EXCEPT !.sampleid =
                      IF found(o) = {} THEN NULL ELSE MaxOf(found(o))]
             ELSE mdb.objs[o]]]
    /\ mig' = [mig EXCEPT !.pc = "insert_acquisitions"]
    /\ UNCHANGED outMigration

\* max(p.projid) of the group of a sample
AcquisitionProject(projids) == MaxOf(projids)

\* insert into acquisitions ... join samples sa on oh.sampleid = sa.sampleid
\*  where oh.acquisid is null group by sa.sampleid
insert_acquisitions ==
    /\ mig.pc = "insert_acquisitions"
    /\ LET joined == {o \in MigObjs :
                         /\ mdb.objs[o].projid \in MigProjects
                         /\ \E sa \in mdb.samples : sa.id = mdb.objs[o].sampleid
                         /\ mdb.objs[o].acquisid = NULL}
           groups == {mdb.objs[o].sampleid : o \in joined}
           proj_of == [g \in groups |->
                          AcquisitionProject({mdb.objs[o].projid :
                              o \in {x \in joined : mdb.objs[x].sampleid = g}})]
       IN mdb' = [mdb EXCEPT
             !.acquisitions = @ \cup InsertedFor(groups, mdb.nextval, proj_of),
             !.nextval = @ + Cardinality(groups)]
    /\ mig' = [mig EXCEPT !.pc = "update_acquisid"]
    /\ UNCHANGED outMigration

\* update obj_head oh set acquisid = (select acq.acquisid ... where
\*  acq.projid = oh.projid and acq.orig_id = '__DUMMY_ID__'||oh.sampleid||'__')
\*  where oh.projid in (...) and oh.acquisid is null
update_acquisid ==
    /\ mig.pc = "update_acquisid"
    /\ LET dummy_prj == {r.projid : r \in {x \in mdb.acquisitions : LikeDummy(x.orig_id)}}
           found(o) == {x \in mdb.acquisitions :
                            x.projid = mdb.objs[o].projid
                            /\ x.orig_id = DummyId(mdb.objs[o].sampleid)}
       IN mdb' = [mdb EXCEPT !.objs = [o \in MigObjs |->
             IF mdb.objs[o].projid \in dummy_prj /\ mdb.objs[o].acquisid = NULL
             THEN [mdb.objs[o] EXCEPT !.acquisid = Scalar(found(o))]
             ELSE mdb.objs[o]]]
    /\ mig' = [mig EXCEPT !.pc = "insert_process"]
    /\ UNCHANGED outMigration

\* insert into process ... join samples ... join acquisitions acq on
\*  oh.acquisid = acq.acquisid where oh.processid is null group by acq.acquisid
insert_process ==
    /\ mig.pc = "insert_process"
    /\ LET joined == {o \in MigObjs :
                         /\ mdb.objs[o].projid \in MigProjects
                         /\ \E sa \in mdb.samples : sa.id = mdb.objs[o].sampleid
                         /\ \E acq \in mdb.acquisitions : acq.id = mdb.objs[o].acquisid
                         /\ mdb.objs[o].processid = NULL}
           groups == {mdb.objs[o].acquisid : o \in joined}
           proj_of == [g \in groups |->
                          MaxOf({mdb.objs[o].projid :
                              o \in {x \in joined : mdb.objs[x].acquisid = g}})]
       IN mdb' = [mdb EXCEPT
             !.process = @ \cup InsertedFor(groups, mdb.nextval, proj_of),
             !.nextval = @ + Cardinality(groups)]
    /\ mig' = [mig EXCEPT !.pc = "update_processid"]
    /\ UNCHANGED outMigration

\* update obj_head oh set processid = (select prc.processid ...)
\*  where oh.projid in (...) and oh.processid is null; commit
update_processid ==
    /\ mig.pc = "update_processid"
    /\ LET dummy_prj == {r.projid : r \in {x \in mdb.process : LikeDummy(x.orig_id)}}
           found(o) == {x \in mdb.process :
                            x.projid = mdb.objs[o].projid
                            /\ x.orig_id = DummyId(mdb.objs[o].acquisid)}
       IN mdb' = [mdb EXCEPT !.objs = [o \in MigObjs |->
             IF mdb.objs[o].projid \in dummy_prj /\ mdb.objs[o].processid = NULL
             THEN [mdb.objs[o] EXCEPT !.processid = Scalar(found(o))]
             ELSE mdb.objs[o]]]
    /\ mig' = [mig EXCEPT !.pc = "alter_column"]
    /\ UNCHANGED outMigration

\* op.alter_column('obj_head', ..., nullable=False), three times: each fails
\* on a column that holds a NULL.
alter_column ==
    /\ mig.pc = "alter_column"
    /\ mig' = [mig EXCEPT !.pc =
          IF \E o \in MigObjs : \/ mdb.objs[o].acquisid = NULL
                                \/ mdb.objs[o].sampleid = NULL
                                \/ mdb.objs[o].processid = NULL
          THEN "failed" ELSE "upgraded"]
    /\ UNCHANGED mdb
    /\ UNCHANGED outMigration

\* The database before the upgrade: every object in a project; one sample,
\* one acquisition and one process exist, each in a project, and an object
\* has each of them or not.
MigrationInit ==
    /\ \E heads \in [MigObjs -> [projid : MigProjects, sampleid : {NULL, OldParent},
                                acquisid : {NULL, OldParent},
                                processid : {NULL, OldParent}]],
          sam_prj \in MigProjects, acq_prj \in MigProjects :
         /\ mdb = [objs |-> heads,
                   samples |-> {ParentRowOf(OldParent, <<"s1">>, sam_prj)},
                   acquisitions |-> {ParentRowOf(OldParent, <<"a1">>, acq_prj)},
                   process |-> {ParentRowOf(OldParent, <<"p1">>, acq_prj)},
                   nextval |-> FirstNewId]
         /\ mig = [pc |-> "insert_samples", before |-> heads]
    /\ FirstIdle /\ UsersIdle /\ PasswordIdle /\ MruIdle /\ PurgeIdle /\ CollectionIdle
    /\ PrefsIdle /\ TaxoQueryIdle /\ LineageIdle /\ FieldsIdle /\ MailIdle /\ ServiceIdle

MigrationNext ==
    \/ insert_samples \/ update_sampleid
    \/ insert_acquisitions \/ update_acquisid
    \/ insert_process \/ update_processid
    \/ alter_column

SpecMigration == MigrationInit /\ [][MigrationNext]_vars

\* The row of a table with an id.
RowOf(table, id) == CHOOSE r \in table : r.id = id

\* A parent made by the upgrade, for an object of a project.
MadeFor(table, id, projid, parent_id) ==
    /\ \E r \in table : r.id = id
    /\ RowOf(table, id).projid = projid
    /\ RowOf(table, id).orig_id = DummyId(parent_id)

\* Every object has its three parents, the ones it had or ones made for it.
AllParents ==
    \A o \in MigObjs :
        LET now == mdb.objs[o]
            was == mig.before[o]
        IN /\ now.sampleid # NULL /\ now.acquisid # NULL /\ now.processid # NULL
           /\ now.projid = was.projid
           /\ IF was.sampleid # NULL THEN now.sampleid = was.sampleid
              ELSE MadeFor(mdb.samples, now.sampleid, now.projid, now.projid)
           /\ IF was.acquisid # NULL THEN now.acquisid = was.acquisid
              ELSE MadeFor(mdb.acquisitions, now.acquisid, now.projid, now.sampleid)
           /\ IF was.processid # NULL THEN now.processid = was.processid
              ELSE MadeFor(mdb.process, now.processid, now.projid, now.acquisid)

\* C29: starting from any database state in which every object belongs to an
\* existing project, after the upgrade every object has a non-null sample,
\* acquisition and process; an object that had one of these parents keeps
\* it, and each parent the migration creates belongs to the object's project
\* and has the orig_id '__DUMMY_ID__<id of its own parent>__'.
C29_EveryObjectGetsItsParents ==
    mig.pc \in {"failed", "upgraded"} => (mig.pc = "upgraded" /\ AllParents)

\* The objects that have the same sample, or the same acquisition, before the
\* upgrade are in one project.
SharedInOneProject ==
    \A o1, o2 \in MigObjs :
        LET a == mig.before[o1]
            b == mig.before[o2]
        IN (\/ a.sampleid # NULL /\ a.sampleid = b.sampleid
            \/ a.acquisid # NULL /\ a.acquisid = b.acquisid) => a.projid = b.projid

\* What the code ensures: the same, from the states in which the objects of
\* a sample, and those of an acquisition, are in one project.
C29_ParentsWhenSharedInOneProject ==
    (SharedInOneProject /\ mig.pc \in {"failed", "upgraded"}) =>
        (mig.pc = "upgraded" /\ AllParents)

C29_ObjectLeftWithoutAcquisition ==
    /\ mig.pc = "failed"
    /\ \E o1, o2 \in MigObjs :
          /\ mig.before[o1].sampleid = OldParent /\ mig.before[o2].sampleid = OldParent
          /\ mig.before[o1].projid # mig.before[o2].projid
          /\ mdb.objs[o1].acquisid = NULL /\ mdb.objs[o2].acquisid # NULL

====
